---- MODULE Spec2Model ----
(***************************************************************************)
(* Portfolio monitoring core of the wallet tracker: the TokenMonitor       *)
(* (internal/tracker/monitor.go), the valuation UpdateTokenPrices          *)
(* (internal/tracker/price.go), the periodic balance refresh of main.go    *)
(* and the two-source wallet fetch (internal/tracker/wallet.go).           *)
(*                                                                         *)
(* Time is in whole seconds.  Prices, amounts and values are integers;     *)
(* a percentage comparison |(cur-old)/old*100| >= t of the float64 code is *)
(* modelled exactly as |cur-old|*100 >= t*old (old > 0).                   *)
(***************************************************************************)
EXTENDS Integers, Sequences, FiniteSets, TLC

(* ------------------------------ bounds --------------------------------- *)
\* ticker periods the model lets elapse (Spec, SpecConc)
MaxFires == 3
\* ticker periods the model lets elapse in the deep ring run (SpecRing)
MaxRingFires == 302
\* periodic refreshes the model lets run
MaxRefresh == 1
\* batches of the longest mint list handed to a price lookup
MaxBatches == 2
\* wallets handed to one acquisition
MaxWallets == 3
\* calls of UpdateTokenPrices in a run of the valuation
MaxValuations == 3
\* mints of the largest wallet valued
MaxMints == 51
\* ticker periods the model lets elapse at the interval of main (SpecInterval)
MaxIntervalFires == 16
\* times the oracle of SpecInterval changes its quote of a mint
MaxQuoteMoves == 3
\* seconds the clock of the valuation runs
MaxClock == 5
\* ticks and refreshes in a run over the object heap
MaxHeapSteps == 3
\* the clock of the metadata cache stops after this many steps
MaxCacheClock == 3

(* -------------------------- program constants -------------------------- *)
\* ring.New(300)
ringLen == 300
\* alertThreshold: 5.0
alertThreshold == 5
\* window+(5*time.Second)
tolerance == 5
\* validTokens[:50]
topN == 50
\* maxRetries = 5
maxRetries == 5
\* batchSize = 100
batchSize == 100
\* time.Sleep(5 * time.Minute) / time.NewTicker(5 * time.Minute)
refreshPeriod == 300
\* const maxConcurrent = 2
maxConcurrent == 2

\* timeWindows := []time.Duration{30s, 1m, 5m}
timeWindows_dup == <<30, 30, 300>>
timeWindows == <<30, 60, 300>>

(* ------------------------------- data ---------------------------------- *)
\* r.Value == nil : a ring slot that was never written
NilSnapshot == [Timestamp |-> -1, Value |-> 0, TokenData |-> [m \in {} |-> 0]]
IsNil(s) == s.Timestamp < 0

\* a TokenData as FetchWalletTokens delivers it (no price yet); Name goes with
\* Symbol and Decimals is not read after the merge: neither is kept
Holding(mint, symbol, amount) ==
    [MintAddr |-> mint, Symbol |-> symbol, Amount |-> amount, Price |-> 0, Value |-> 0,
     ConfidenceLevel |-> ""]

\* a quote of GetTokenPrices
Quote(price, conf) == [Price |-> price, ConfidenceLevel |-> conf]

\* all enumerations of a finite set (Go map iteration order is unspecified)
Perms(S) ==
    {s \in [1..Cardinality(S) -> S] : \A i, j \in 1..Cardinality(S) : i /= j => s[i] /= s[j]}

MintsOf(s) == {s[i].MintAddr : i \in 1..Len(s)}
Min2(a, b) == IF a < b THEN a ELSE b

RECURSIVE Pow10(_)
\* math.Pow10
Pow10(n) == IF n = 0 THEN 1 ELSE 10 * Pow10(n - 1)

\* abs(x float64)
abs(x) == IF x < 0 THEN -x ELSE x

(* ------------------------- inputs of the model ------------------------- *)
\* seconds that elapse between two firings of the monitor ticker
Dts == {5, 30, 300}

\* answers of the price oracle to one lookup (mint -> quote, mints may be absent)
OracleAnswers ==
    { [m \in {"X", "Y"} |-> Quote(100, "high")],
      [m \in {"X", "Y"} |-> IF m = "X" THEN Quote(105, "high") ELSE Quote(110, "medium")],
      [m \in {"X", "Y"} |-> IF m = "X" THEN Quote(95, "high") ELSE Quote(100, "high")],
      [m \in {"X", "Y"} |-> IF m = "X" THEN Quote(100, "low") ELSE Quote(100, "high")],
      [m \in {} |-> Quote(0, "")] }

\* tracker.NewTokenMonitor(20*time.Second, ...): the tick interval of main, seconds
interval == 20

\* the answers of an oracle that always quotes both mints, X at 100 or at 95
IntervalAnswers ==
    { [m \in {"X", "Y"} |-> Quote(100, "high")],
      [m \in {"X", "Y"} |-> IF m = "X" THEN Quote(95, "high") ELSE Quote(100, "high")] }

\* the answers of a steady oracle: every mint at 100, or nothing at all
SteadyQuotes == [m \in {"X", "Y"} |-> Quote(100, "high")]
SteadyAnswers == {SteadyQuotes, [m \in {} |-> Quote(0, "")]}

\* results of a successful full balance acquisition: one holding list per wallet
FetchResults ==
    { << <<Holding("X", "XS", 19), Holding("Y", "YS", 0)>> >>,
      << <<Holding("X", "UNKNOWN", 10)>>, <<Holding("X", "XS", 10), Holding("Y", "YS", 1)>> >>,
      << <<Holding("X", "XS", 20)>> >> }

\* main.go: validTokens of the initial valuation, handed to monitor.UpdateTokens
InitialTokens ==
    << [MintAddr |-> "X", Symbol |-> "XS", Amount |-> 20, Price |-> 100, Value |-> 2000,
        ConfidenceLevel |-> "high"],
       [MintAddr |-> "Y", Symbol |-> "YS", Amount |-> 1, Price |-> 100, Value |-> 100,
        ConfidenceLevel |-> "high"] >>

(* --------------------- valuation: UpdateTokenPrices -------------------- *)
RECURSIVE SumAmount(_, _)
\* existing.Amount += token.Amount over one wallet list
SumAmount(list, mint) ==
    IF list = <<>> THEN 0
    ELSE (IF Head(list).MintAddr = mint THEN Head(list).Amount ELSE 0)
         + SumAmount(Tail(list), mint)

RECURSIVE SumWallets(_, _)
SumWallets(lists, mint) ==
    IF lists = <<>> THEN 0
    ELSE SumAmount(Head(lists), mint) + SumWallets(Tail(lists), mint)

RECURSIVE MintsOfWallets(_)
MintsOfWallets(lists) ==
    IF lists = <<>> THEN {} ELSE MintsOf(Head(lists)) \cup MintsOfWallets(Tail(lists))

RECURSIVE FirstSymbol(_, _)
\* the Symbol copied when the mint is first met; `list` is the wallets' lists in
\* the order the range over the map visits them
FirstSymbol(list, mint) ==
    IF list = <<>> THEN ""
    ELSE IF Head(list).MintAddr = mint THEN Head(list).Symbol
    ELSE FirstSymbol(Tail(list), mint)

RECURSIVE Flatten(_)
Flatten(lists) == IF lists = <<>> THEN <<>> ELSE Head(lists) \o Flatten(Tail(lists))

\* mintMap: one entry per mint, amounts summed over the wallets
mintMap(lists) ==
    [m \in MintsOfWallets(lists) |->
        [Amount |-> SumWallets(lists, m), Symbol |-> FirstSymbol(Flatten(lists), m)]]

QuoteRejected_priceOnly(q) == q.Price <= 0
\* price.Price <= 0 || price.ConfidenceLevel == "low"  (the quote is skipped)
QuoteRejected(q) == q.Price <= 0 \/ q.ConfidenceLevel = "low"

ValuedTokens_keepUnquoted(lists, quotes) ==
    LET mm == mintMap(lists)
    IN { [MintAddr |-> m, Symbol |-> mm[m].Symbol, Amount |-> mm[m].Amount,
          Price |-> IF m \in DOMAIN quotes THEN quotes[m].Price ELSE 0,
          Value |-> IF m \in DOMAIN quotes THEN mm[m].Amount * quotes[m].Price ELSE 0,
          ConfidenceLevel |-> IF m \in DOMAIN quotes THEN quotes[m].ConfidenceLevel ELSE ""] :
         m \in {x \in DOMAIN mm : x \in DOMAIN quotes => ~QuoteRejected(quotes[x])} }
\* the holdings appended to validTokens
ValuedTokens(lists, quotes) ==
    LET mm == mintMap(lists)
    IN { [MintAddr |-> m, Symbol |-> mm[m].Symbol, Amount |-> mm[m].Amount,
          Price |-> quotes[m].Price, Value |-> mm[m].Amount * quotes[m].Price,
          ConfidenceLevel |-> quotes[m].ConfidenceLevel] :
         m \in {x \in DOMAIN mm : x \in DOMAIN quotes /\ ~QuoteRejected(quotes[x])} }

RECURSIVE SortedByValue(_)
\* sort.Slice(validTokens, Value descending): not stable, map order unspecified.
\* Every enumeration of S in which no token precedes one of greater value, built
\* from the front: a token of the greatest value, then the rest sorted.
SortedByValue(S) ==
    IF S = {} THEN {<<>>}
    ELSE UNION {{<<t>> \o r : r \in SortedByValue(S \ {t})} :
                   t \in {x \in S : \A u \in S : x.Value >= u.Value}}

\* validTokens[:50]
Truncate_tail(s) == SubSeq(s, Len(s) - Min2(Len(s), topN) + 1, Len(s))
Truncate(s) == SubSeq(s, 1, Min2(Len(s), topN))

\* the lists UpdateTokenPrices can return for these wallets and this oracle answer
UpdateTokenPrices(lists, quotes) ==
    {Truncate(s) : s \in SortedByValue(ValuedTokens(lists, quotes))}

(* --------------------------- history ring ------------------------------ *)
RingNext_stuck(i) == i
\* r.Next()
RingNext(i) == (i + 1) % ringLen
\* r.Prev()
RingPrev(i) == (i + ringLen - 1) % ringLen

\* The ring is kept as the map from its written elements (0..ringLen-1) to their
\* values; an element outside the map holds nil.
\* r.Value
RingValue(ringv, i) == IF i \in DOMAIN ringv THEN ringv[i] ELSE NilSnapshot
\* r.Value = snap
RingSet(ringv, i, snap) ==
    [e \in DOMAIN ringv \cup {i} |-> IF e = i THEN snap ELSE ringv[e]]
\* the number of r.Next() steps from element pos to element e
RingOffset(pos, e) == (e + ringLen - pos) % ringLen

\* tokenDataMap / currentSnapshot of takeSnapshot
MakeSnapshot(validTokens, ts) ==
    LET kept == {i \in 1..Len(validTokens) : validTokens[i].Price > 0}
        td == [m \in {validTokens[i].MintAddr : i \in kept} |->
                 CHOOSE t \in {validTokens[i] : i \in kept} : t.MintAddr = m]
        RECURSIVE Total(_)
        Total(ms) == IF ms = {} THEN 0
                     ELSE LET m == CHOOSE x \in ms : TRUE
                          IN td[m].Value + Total(ms \ {m})
    IN [Timestamp |-> ts, Value |-> Total(DOMAIN td), TokenData |-> td]

InsertsSnapshot_always(snap) == TRUE
\* if len(tokenDataMap) > 0 { m.priceHistory = m.priceHistory.Next() ... }
InsertsSnapshot(snap) == DOMAIN snap.TokenData /= {}

(* ----------------------------- alert engine ---------------------------- *)
WindowMatch_noUpper(timeDiff, window) == timeDiff >= window
WindowMatch_wide(timeDiff, window) == timeDiff >= window /\ timeDiff <= window + 2 * tolerance
\* timeDiff >= window && timeDiff <= window+(5*time.Second)
WindowMatch(timeDiff, window) == timeDiff >= window /\ timeDiff <= window + tolerance

\* the scan of the ring visits the elements pos, pos.Next(), ...: the steps i at
\* which it meets a written element whose age matches the window
ScanHits(ringv, pos, ts, window) ==
    {i \in {RingOffset(pos, e) : e \in DOMAIN ringv} :
        WindowMatch(ts - RingValue(ringv, (pos + i) % ringLen).Timestamp, window)}

FindSnapshot_lastHit(ringv, pos, ts, window) ==
    LET hits == ScanHits(ringv, pos, ts, window)
    IN IF hits = {} THEN NilSnapshot
       ELSE RingValue(ringv, (pos + (CHOOSE i \in hits : \A j \in hits : i >= j)) % ringLen)
\* oldSnapshot (the first hit of the scan), or NilSnapshot when found is false
FindSnapshot(ringv, pos, ts, window) ==
    LET hits == ScanHits(ringv, pos, ts, window)
    IN IF hits = {} THEN NilSnapshot
       ELSE RingValue(ringv, (pos + (CHOOSE i \in hits : \A j \in hits : i <= j)) % ringLen)

ExceedsThreshold_strict(cur, old) == abs(cur - old) * 100 > alertThreshold * old
\* abs(((cur - old) / old) * 100) >= m.alertThreshold, for old > 0
ExceedsThreshold(cur, old) == abs(cur - old) * 100 >= alertThreshold * old

Alert(kind, mint, window, old, cur, oldTs) ==
    [kind |-> kind, mint |-> mint, window |-> window,
     before |-> old, after |-> cur, oldTs |-> oldTs]

\* the alerts written for one mint and one window
AlertsForWindow(mint, curToken, old, window) ==
    IF IsNil(old) THEN <<>>
    ELSE IF ~(mint \in DOMAIN old.TokenData /\ old.TokenData[mint].Value > 0) THEN <<>>
    ELSE LET oldToken == old.TokenData[mint]
         IN (IF ExceedsThreshold(curToken.Price, oldToken.Price)
             THEN <<Alert("price", mint, window, oldToken.Price, curToken.Price, old.Timestamp)>>
             ELSE <<>>)
            \o
            (IF ExceedsThreshold(curToken.Value, oldToken.Value)
             THEN <<Alert("value", mint, window, oldToken.Value, curToken.Value, old.Timestamp)>>
             ELSE <<>>)

RECURSIVE AlertsForMint(_, _, _, _, _)
\* for _, window := range timeWindows, from index k on
AlertsForMint(mint, cur, ringv, pos, k) ==
    IF k > Len(timeWindows) THEN <<>>
    ELSE AlertsForWindow(mint, cur.TokenData[mint],
                         FindSnapshot(ringv, pos, cur.Timestamp, timeWindows[k]),
                         timeWindows[k])
         \o AlertsForMint(mint, cur, ringv, pos, k + 1)

RECURSIVE AlertsInOrder(_, _, _, _)
AlertsInOrder(order, cur, ringv, pos) ==
    IF order = <<>> THEN <<>>
    ELSE AlertsForMint(Head(order), cur, ringv, pos, 1)
         \o AlertsInOrder(Tail(order), cur, ringv, pos)

\* the alert sequences one call of checkPriceAlert can write (map order unspecified)
checkPriceAlert(cur, ringv, pos) ==
    {AlertsInOrder(order, cur, ringv, pos) :
        order \in Perms({m \in DOMAIN cur.TokenData : cur.TokenData[m].Value > 0})}

(* ------------------------------- state --------------------------------- *)
VARIABLES
    \* TokenMonitor fields
    tokens,          \* m.tokens
    lastTotalValue,  \* m.lastTotalValue
    lastUpdateTime,  \* m.lastUpdateTime (-1: the zero time.Time)
    ring,            \* the values of the written elements of the 300-element ring
    priceHistory,    \* m.priceHistory: the element the monitor points at
    ctxDone,         \* m.ctx is cancelled
    filesClosed,     \* csvFile and alertFile are closed
    alertLog,        \* reports/alert.log, one entry per line written: [at, alert]
    csvSink,         \* reports/monitor.csv, one entry per line written
    \* clock and ticker of Start()
    now,
    fires,           \* ticker periods elapsed
    tickerC,         \* a tick is waiting in ticker.C (capacity 1)
    tickerStopped,
    \* the goroutine of Start()
    pcLoop,          \* "select", "lookup" (takeSnapshot waits for prices), "stopped"
    tk,              \* locals of the running takeSnapshot
    \* the refresh goroutine of main
    pcRefresh,       \* "wait", "fetch", "lookup", "update"
    rf,              \* locals of the running updateData
    refreshDue,      \* time of the next firing of the refresh ticker
    refreshes,       \* runs of updateData started
    \* history of the run, kept for the properties
    inserted,        \* every snapshot put into the ring, in order
    cycle,           \* the last detection cycle: its snapshot, the alerts it emitted,
                     \* the number of quotes its lookup returned, the status line it
                     \* printed, the steps it performed in order
    ticksBegun,      \* calls of takeSnapshot
    cancelObserved,  \* the loop took the ctx.Done() branch
    refreshed        \* result of the last completed refresh, and ticks begun since

monitorVars == <<tokens, lastTotalValue, lastUpdateTime, ring, priceHistory, ctxDone,
                 filesClosed, alertLog, csvSink, now, fires, tickerC, tickerStopped, pcLoop, tk,
                 pcRefresh, rf, refreshDue, refreshes, inserted, cycle, ticksBegun,
                 cancelObserved, refreshed>>

VARIABLES
    \* one call of FetchWalletTokens and its two fetcher goroutines
    parentDone,      \* the caller's context (ctx of main / m.ctx) is cancelled
    pcFetch,         \* "idle", "waitRpc", "waitDas", "returned"
    pcRpc,           \* "none", "fetching", "send" (blocked on rpcChan <-), "done"
    pcDas,           \* "none", "fetching", "send" (blocked on dasChan <-), "done"
    fetchCtxDone,    \* the 30s context of the call is done (deadline, or cancel())
    rpcMsg,          \* what the RPC goroutine sends
    dasMsg,          \* what the DAS goroutine sends
    rpcTokens,       \* local rpcTokens
    fetchOut,        \* what FetchWalletTokens returned
    \* one call of JupiterPriceService.GetTokenPrices
    pcLookup,        \* "idle", "batch", "request", "backoff", "pause", "done"
    lkMints,         \* mintAddrs
    lkI,             \* i, the start of the current batch
    lkRetry,         \* retry
    lkPrices,        \* prices
    lkLast,          \* how the last client.Do ended: "none", "err", "ok"
    lkOut,           \* what GetTokenPrices returned
    lkBatches        \* history of the call: one record per batch whose retry loop ran

fetchVars == <<parentDone, pcFetch, pcRpc, pcDas, fetchCtxDone, rpcMsg, dasMsg, rpcTokens,
               fetchOut>>
lookupVars == <<pcLookup, lkMints, lkI, lkRetry, lkPrices, lkLast, lkOut, lkBatches>>

VARIABLES
    \* one call of FetchMultipleWalletsTokens and the valuation of its result
    pcMulti,         \* "idle", "admit", "collect", "returned"
    mwAddrs,         \* walletAddrs
    mwNext,          \* wallets for which a goroutine was started
    mwSem,           \* elements in sem
    mwWorker,        \* per wallet: "none", "sleep", "fetch", "release", "done"
    mwChan,          \* resultChan
    mwResults,       \* results
    mwFirstErr,      \* firstErr
    mwI,             \* i of the collecting loop
    mwOut,           \* what FetchMultipleWalletsTokens returned
    mwSrc,           \* per wallet, the source data its FetchWalletTokens merged and
                     \* how its worker ended ("none" while it has not)
    mwValued         \* validTokens of UpdateTokenPrices over the returned holdings

walletsVars == <<pcMulti, mwAddrs, mwNext, mwSem, mwWorker, mwChan, mwResults, mwFirstErr,
                 mwI, mwOut, mwSrc, mwValued>>

VARIABLES
    \* calls of UpdateTokenPrices(tokens, monitor), one after the other
    upMonitor,       \* the monitor handed over: its tokens, its lastUpdateTime (-1: zero)
    upNow,           \* the clock
    upCalls,         \* calls made
    upOut            \* the last call: its arguments, what it read of the monitor,
                     \* validTokens before and after the cut, Change of each token

valueVars == <<upMonitor, upNow, upCalls, upOut>>

VARIABLES
    \* the TokenData objects behind the pointers of the monitor, and the run of
    \* ticks and refreshes over them
    heap,            \* the TokenData objects allocated so far, by address 1..Len(heap)
    hTokens,         \* m.tokens: the addresses in the slice, in order
    hHistory,        \* the snapshots inserted into the ring, in order: Timestamp,
                     \* Value, TokenData: mint -> address
    hInserted,       \* for each of them, its holdings as they were when it was inserted
    hNow,            \* the clock
    hLog             \* the ticks and refreshes run, in order

heapVars == <<heap, hTokens, hHistory, hInserted, hNow, hLog>>

VARIABLES
    \* the token metadata cache of the configuration and the goroutines using it
    cData,           \* c.data: mint -> the UpdatedAt of its metadata; absent: no entry
    cReaders,        \* the goroutines holding c.mutex for reading
    cWriter,         \* the goroutine holding c.mutex for writing, or 0
    cPc,             \* each goroutine's position in Get or Set
    cArg,            \* the mint each goroutine's call is about
    cStamp,          \* metadata.UpdatedAt of the metadata each Set is storing
    cRet,            \* what each goroutine's last Get returned, and when it decided
    cLastSet,        \* for each mint, when the latest Set of it stamped its metadata
    cNow             \* the clock, in steps of 30 seconds

cacheVars == <<cData, cReaders, cWriter, cPc, cArg, cStamp, cRet, cLastSet, cNow>>

NoLocals == [tokens |-> <<>>, lastTokens |-> <<>>, lastUpdateTime |-> -1]
NoRefreshLocals == [lists |-> <<>>, lastTokens |-> <<>>, lastUpdateTime |-> -1, valid |-> <<>>]

\* NewTokenMonitor, monitor.UpdateTokens(validTokens), monitor.Start(), go func(){...}
MonitorInit ==
    /\ tokens = InitialTokens
    /\ lastTotalValue = 0
    /\ lastUpdateTime = -1
    /\ ring = [i \in {} |-> NilSnapshot]
    /\ priceHistory = 0
    /\ ctxDone = FALSE
    /\ filesClosed = FALSE
    /\ alertLog = <<>>
    /\ csvSink = <<>>
    /\ now = 0
    /\ fires = 0
    /\ tickerC = FALSE
    /\ tickerStopped = FALSE
    /\ pcLoop = "select"
    /\ tk = NoLocals
    /\ pcRefresh = "wait"
    /\ rf = NoRefreshLocals
    /\ refreshDue = 2 * refreshPeriod
    /\ refreshes = 0
    /\ inserted = <<>>
    /\ cycle = [snapshot |-> NilSnapshot, alerts |-> <<>>, quotes |-> 0, status |-> <<>>,
                steps |-> <<>>]
    /\ ticksBegun = 0
    /\ cancelObserved = FALSE
    /\ refreshed = [done |-> FALSE, tokens |-> <<>>, ticksSince |-> 0]

(* --------------------------- monitor actions --------------------------- *)
\* the runtime's ticker: a period elapses, a tick is put into ticker.C (or dropped)
TickerFire(dt, maxFires) ==
    /\ ~tickerStopped
    /\ fires < maxFires
    /\ now' = now + dt
    /\ fires' = fires + 1
    /\ tickerC' = TRUE
    /\ UNCHANGED <<fetchVars, lookupVars, walletsVars, valueVars, heapVars, cacheVars>>
    /\ UNCHANGED <<tokens, lastTotalValue, lastUpdateTime, ring, priceHistory, ctxDone,
                   filesClosed, alertLog, csvSink, tickerStopped, pcLoop, tk, pcRefresh, rf,
                   refreshDue, refreshes, inserted, cycle, ticksBegun, cancelObserved, refreshed>>

AfterCancel_break == "select"
\* case <-m.ctx.Done(): ticker.Stop(); return
AfterCancel == "stopped"

\* Start(): the select takes the ctx.Done() branch
LoopObserveCancel ==
    /\ pcLoop = "select"
    /\ ctxDone
    /\ tickerStopped' = TRUE
    /\ cancelObserved' = TRUE
    /\ pcLoop' = AfterCancel
    /\ UNCHANGED <<fetchVars, lookupVars, walletsVars, valueVars, heapVars, cacheVars>>
    /\ UNCHANGED <<tokens, lastTotalValue, lastUpdateTime, ring, priceHistory, ctxDone,
                   filesClosed, alertLog, csvSink, now, fires, tickerC, tk, pcRefresh, rf,
                   refreshDue, refreshes, inserted, cycle, ticksBegun,
                   refreshed>>

LoopReceives_spawned == pcLoop \in {"select", "lookup"}
\* case <-ticker.C: m.takeSnapshot() is called in the loop's own goroutine, so the
\* loop is back at its select only when the call has returned
LoopReceives == pcLoop = "select"

\* Start(): the select takes the ticker.C branch; takeSnapshot reads m.tokens and
\* UpdateTokenPrices reads monitor.tokens and monitor.lastUpdateTime, then the
\* price lookup is under way
TickBegin ==
    /\ LoopReceives
    /\ tickerC
    /\ tickerC' = FALSE
    /\ pcLoop' = "lookup"
    /\ tk' = [tokens |-> tokens, lastTokens |-> tokens, lastUpdateTime |-> lastUpdateTime]
    /\ ticksBegun' = ticksBegun + 1
    /\ refreshed' = [refreshed EXCEPT !.ticksSince = IF refreshed.done THEN @ + 1 ELSE @]
    /\ UNCHANGED <<fetchVars, lookupVars, walletsVars, valueVars, heapVars, cacheVars>>
    /\ UNCHANGED <<tokens, lastTotalValue, lastUpdateTime, ring, priceHistory, ctxDone,
                   filesClosed, alertLog, csvSink, now, fires, tickerStopped, pcRefresh, rf,
                   refreshDue, refreshes, inserted, cycle, cancelObserved>>

\* writeAlertLog: the line, stamped with the time of writing, is appended unless
\* the file was closed by Stop()
WriteAlerts(log, alerts) ==
    IF filesClosed THEN log
    ELSE log \o [i \in 1..Len(alerts) |-> [at |-> now, alert |-> alerts[i]]]

\* the header line of the CSV report
CSVHeader == [kind |-> "header", MintAddr |-> "", Price |-> 0, Value |-> 0, at |-> -1]

\* the data row of one holding
CSVRow(token) ==
    [kind |-> "row", MintAddr |-> token.MintAddr, Price |-> token.Price,
     Value |-> token.Value, at |-> now]

HeaderDue_sink(sb) == csvSink = <<>>
\* if sb.Len() == 0: the builder sb the report is being written into is empty
HeaderDue(sb) == sb = <<>>

\* GenerateCSVReport: into a new strings.Builder, the header if the builder is
\* empty, then one row per token, Value descending (tokens is in that order: the
\* copy that is sorted is sorted already)
GenerateCSVReport(toks) ==
    LET sb == <<>>
    IN (IF HeaderDue(sb) THEN Append(sb, CSVHeader) ELSE sb)
       \o [i \in 1..Len(toks) |-> CSVRow(toks[i])]

\* m.csvFile.WriteString(csvReport): the file was opened with O_APPEND; the write
\* fails once Stop() has closed it
WriteCSV_open(sink, report) == sink \o report
WriteCSV(sink, report) == IF filesClosed THEN sink ELSE sink \o report

\* the writes of one takeSnapshot that fail, each logged with log.Printf: every
\* alert line and the CSV report, once the files are closed
FailedWrites(alerts) == IF filesClosed THEN Len(alerts) + 1 ELSE 0

\* fmt.Println(statusMsg): the line printed at the end of every takeSnapshot that
\* got past the error check, carrying the total value of the snapshot
StatusLine(snap) == <<snap.Value>>

\* the steps of one takeSnapshot in the order its statements perform them: the
\* price lookup and the valuation of UpdateTokenPrices, the insertion into the ring
\* (only of a snapshot that holds a token), checkPriceAlert, the status line, the
\* row for the CSV file, the onUpdate callback
TickSteps(snap) ==
    <<"prices", "revalue">>
    \o (IF InsertsSnapshot(snap) THEN <<"snapshot">> ELSE <<>>)
    \o <<"alerts", "status", "csv", "observer">>

\* the price lookup of takeSnapshot returns `quotes`; the rest of UpdateTokenPrices
\* and of takeSnapshot runs: valuation, monitor.UpdateTokens, snapshot, ring insert,
\* checkPriceAlert, m.lastTotalValue / m.lastUpdateTime
TickFinish(quotes) ==
    /\ pcLoop = "lookup"
    /\ \E valid \in UpdateTokenPrices(<<tk.tokens>>, quotes) :
       \E snap \in {MakeSnapshot(valid, now)} :
       \E pos \in {IF InsertsSnapshot(snap) THEN RingNext(priceHistory) ELSE priceHistory} :
       \E ringv \in {IF InsertsSnapshot(snap) THEN RingSet(ring, pos, snap) ELSE ring} :
         /\ priceHistory' = pos
         /\ ring' = ringv
         /\ inserted' = IF InsertsSnapshot(snap) THEN Append(inserted, snap) ELSE inserted
         /\ \E alerts \in checkPriceAlert(snap, ringv, pos) :
              /\ cycle' = [snapshot |-> snap, alerts |-> alerts,
                            quotes |-> Cardinality(DOMAIN quotes),
                            status |-> StatusLine(snap),
                            steps |-> TickSteps(snap)]
              /\ alertLog' = WriteAlerts(alertLog, alerts)
         /\ csvSink' = WriteCSV(csvSink, GenerateCSVReport(valid))
         /\ tokens' = valid
         /\ lastTotalValue' = snap.Value
         /\ lastUpdateTime' = now
    /\ pcLoop' = "select"
    /\ tk' = NoLocals
    /\ UNCHANGED <<fetchVars, lookupVars, walletsVars, valueVars, heapVars, cacheVars>>
    /\ UNCHANGED <<ctxDone, filesClosed, now, fires, tickerC, tickerStopped, pcRefresh, rf,
                   refreshDue, refreshes, ticksBegun, cancelObserved, refreshed>>

\* Stop(): m.cancel(), csvFile.Close(), alertFile.Close()
Stop ==
    /\ ~ctxDone
    /\ ctxDone' = TRUE
    /\ filesClosed' = TRUE
    /\ UNCHANGED <<fetchVars, lookupVars, walletsVars, valueVars, heapVars, cacheVars>>
    /\ UNCHANGED <<tokens, lastTotalValue, lastUpdateTime, ring, priceHistory, alertLog, csvSink,
                   now, fires, tickerC, tickerStopped, pcLoop, tk, pcRefresh, rf,
                   refreshDue, refreshes, inserted, cycle, ticksBegun, cancelObserved, refreshed>>

(* ------------------------ periodic balance refresh --------------------- *)
\* the refresh ticker fires: updateData() starts fetchTokens
RefreshBegin ==
    /\ pcRefresh = "wait"
    /\ refreshes < MaxRefresh
    /\ now >= refreshDue
    /\ pcRefresh' = "fetch"
    /\ refreshes' = refreshes + 1
    /\ refreshDue' = refreshDue + refreshPeriod
    /\ UNCHANGED <<fetchVars, lookupVars, walletsVars, valueVars, heapVars, cacheVars>>
    /\ UNCHANGED <<tokens, lastTotalValue, lastUpdateTime, ring, priceHistory, ctxDone,
                   filesClosed, alertLog, csvSink, now, fires, tickerC, tickerStopped, pcLoop, tk,
                   rf, inserted, cycle, ticksBegun, cancelObserved, refreshed>>

\* fetchTokens returned an error: updateData returns
RefreshFetchFail ==
    /\ pcRefresh = "fetch"
    /\ pcRefresh' = "wait"
    /\ UNCHANGED <<fetchVars, lookupVars, walletsVars, valueVars, heapVars, cacheVars>>
    /\ UNCHANGED <<tokens, lastTotalValue, lastUpdateTime, ring, priceHistory, ctxDone,
                   filesClosed, alertLog, csvSink, now, fires, tickerC, tickerStopped, pcLoop, tk,
                   rf, refreshDue, refreshes, inserted, cycle, ticksBegun, cancelObserved, refreshed>>

\* fetchTokens returned `lists`; UpdateTokenPrices(tokens, monitor) reads
\* monitor.tokens and monitor.lastUpdateTime and starts its price lookup
RefreshFetched(lists) ==
    /\ pcRefresh = "fetch"
    /\ pcRefresh' = "lookup"
    /\ rf' = [lists |-> lists, lastTokens |-> tokens, lastUpdateTime |-> lastUpdateTime,
              valid |-> <<>>]
    /\ UNCHANGED <<fetchVars, lookupVars, walletsVars, valueVars, heapVars, cacheVars>>
    /\ UNCHANGED <<tokens, lastTotalValue, lastUpdateTime, ring, priceHistory, ctxDone,
                   filesClosed, alertLog, csvSink, now, fires, tickerC, tickerStopped, pcLoop, tk,
                   refreshDue, refreshes, inserted, cycle, ticksBegun, cancelObserved, refreshed>>

\* the price lookup of the refresh returns `quotes`; UpdateTokenPrices values the
\* fetched holdings and writes monitor.tokens and monitor.lastUpdateTime
RefreshPriced(quotes) ==
    /\ pcRefresh = "lookup"
    /\ \E valid \in UpdateTokenPrices(rf.lists, quotes) :
         /\ tokens' = valid
         /\ rf' = [rf EXCEPT !.valid = valid]
    /\ lastUpdateTime' = now
    /\ pcRefresh' = "update"
    /\ UNCHANGED <<fetchVars, lookupVars, walletsVars, valueVars, heapVars, cacheVars>>
    /\ UNCHANGED <<lastTotalValue, ring, priceHistory, ctxDone, filesClosed, alertLog, csvSink, now,
                   fires, tickerC, tickerStopped, pcLoop, tk, refreshDue, refreshes,
                   inserted, cycle, ticksBegun, cancelObserved, refreshed>>

\* main.go: monitor.UpdateTokens(validTokens); updateData is complete
RefreshUpdateTokens ==
    /\ pcRefresh = "update"
    /\ tokens' = rf.valid
    /\ refreshed' = [done |-> TRUE, tokens |-> rf.valid, ticksSince |-> 0]
    /\ pcRefresh' = "wait"
    /\ rf' = NoRefreshLocals
    /\ UNCHANGED <<fetchVars, lookupVars, walletsVars, valueVars, heapVars, cacheVars>>
    /\ UNCHANGED <<lastTotalValue, lastUpdateTime, ring, priceHistory, ctxDone,
                   filesClosed, alertLog, csvSink, now, fires, tickerC, tickerStopped, pcLoop, tk,
                   refreshDue, refreshes, inserted, cycle, ticksBegun, cancelObserved>>

(* ------------------ wallet acquisition: FetchWalletTokens --------------- *)
\* a TokenAccount of the raw enumeration
TokenAccount(mint, balance, decimals) == [Mint |-> mint, Balance |-> balance, Decimals |-> decimals]

\* a TokenData with its Name, as the wallet acquisition builds it
NamedHolding(mint, symbol, name, amount) ==
    [MintAddr |-> mint, Symbol |-> symbol, Name |-> name, Amount |-> amount, Price |-> 0,
     Value |-> 0, ConfidenceLevel |-> ""]

\* answers of the raw enumeration (an error is delivered as nil, the empty list)
RpcAnswers ==
    { <<TokenAccount("X", 1000, 2)>>,
      <<TokenAccount("X", 1000, 2), TokenAccount("Y", 5, 0)>>,
      <<TokenAccount("X", 1000, 2), TokenAccount("X", 500, 2)>> }

\* answers of the indexed search: holdings and native balance in lamports
DasAnswers ==
    { [tokens |-> <<NamedHolding("X", "XS", "X Coin", 12)>>, balance |-> 0, err |-> FALSE],
      [tokens |-> <<NamedHolding("Z", "ZS", "Z Coin", 7)>>, balance |-> 2000000000,
       err |-> FALSE],
      [tokens |-> <<NamedHolding("X", "XS", "X Coin", 12), NamedHolding("X", "XS", "X Coin", 3)>>,
       balance |-> 0, err |-> FALSE] }

DasError == [tokens |-> <<>>, balance |-> 0, err |-> TRUE]
NoFetchOut == [tokens |-> <<>>, err |-> "pending"]


\* dasTokenMap: the last indexed record of each mint
dasTokenMap(das) ==
    [m \in MintsOf(das) |->
        das[CHOOSE i \in 1..Len(das) :
               /\ das[i].MintAddr = m
               /\ \A j \in 1..Len(das) : das[j].MintAddr = m => j <= i]]

MergeRpc_rawWins(rpc, das) ==
    [i \in 1..Len(rpc) |->
        NamedHolding(rpc[i].Mint, "UNKNOWN", "Unknown Token",
                     IF rpc[i].Decimals > 0 THEN rpc[i].Balance \div Pow10(rpc[i].Decimals)
                     ELSE rpc[i].Balance)]
\* the first loop of mergeTokenData: one entry per raw account, the indexed record
\* when there is one, else the descaled raw balance under the UNKNOWN symbol
\* (balances are chosen divisible by 10^decimals)
MergeRpc(rpc, das) ==
    [i \in 1..Len(rpc) |->
        IF rpc[i].Mint \in MintsOf(das) THEN dasTokenMap(das)[rpc[i].Mint]
        ELSE NamedHolding(rpc[i].Mint, "UNKNOWN", "Unknown Token",
                          IF rpc[i].Decimals > 0
                          THEN rpc[i].Balance \div Pow10(rpc[i].Decimals)
                          ELSE rpc[i].Balance)]

\* mergeTokenData: then the mints only the indexed source has, in map order
mergeTokenData(rpc, das) ==
    LET only == {m \in MintsOf(das) : \A i \in 1..Len(rpc) : rpc[i].Mint /= m}
    IN {MergeRpc(rpc, das) \o [k \in 1..Len(o) |-> dasTokenMap(das)[o[k]]] : o \in Perms(only)}

\* the synthetic native entry appended when nativeBalance > 0
WithNative(merged, nativeBalance) ==
    IF nativeBalance > 0
    THEN Append(merged, NamedHolding("So11111111111111111111111111111111111111111", "SOL",
                                     "Solana", nativeBalance \div 1000000000))
    ELSE merged

\* ctx, cancel := context.WithTimeout(context.Background(), 30*time.Second)
FetchCtxParent == "background"

\* <-ctx.Done() of the context of the call is ready
FetchDone == fetchCtxDone \/ (FetchCtxParent = "parent" /\ parentDone)

FetchInit ==
    /\ parentDone = FALSE
    /\ pcFetch = "idle"
    /\ pcRpc = "none"
    /\ pcDas = "none"
    /\ fetchCtxDone = FALSE
    /\ rpcMsg = <<>>
    /\ dasMsg = DasError
    /\ rpcTokens = <<>>
    /\ fetchOut = NoFetchOut

\* the caller's context is cancelled
CancelParent ==
    /\ ~parentDone
    /\ parentDone' = TRUE
    /\ UNCHANGED <<pcFetch, pcRpc, pcDas, fetchCtxDone, rpcMsg, dasMsg, rpcTokens, fetchOut>>
    /\ UNCHANGED <<monitorVars, lookupVars, walletsVars, valueVars, heapVars, cacheVars>>

\* a worker of FetchMultipleWalletsTokens finds its ctx not done and calls
\* FetchWalletTokens, which starts the two goroutines
FetchStart ==
    /\ pcFetch = "idle"
    /\ ~parentDone
    /\ pcFetch' = "waitRpc"
    /\ pcRpc' = "fetching"
    /\ pcDas' = "fetching"
    /\ UNCHANGED <<parentDone, fetchCtxDone, rpcMsg, dasMsg, rpcTokens, fetchOut>>
    /\ UNCHANGED <<monitorVars, lookupVars, walletsVars, valueVars, heapVars, cacheVars>>

\* NewHeliusService finds HELIUS_RPC_ENDPOINT or HELIUS_API_KEY unset:
\* FetchWalletTokens returns its error before it starts any goroutine
FetchNoCredentials ==
    /\ pcFetch = "idle"
    /\ ~parentDone
    /\ pcFetch' = "returned"
    /\ fetchOut' = [tokens |-> <<>>, err |-> "config"]
    /\ UNCHANGED <<parentDone, pcRpc, pcDas, fetchCtxDone, rpcMsg, dasMsg, rpcTokens>>
    /\ UNCHANGED <<monitorVars, lookupVars, walletsVars, valueVars, heapVars, cacheVars>>

Merged_nonEmpty(list) ==
    IF list = <<>> THEN [tokens |-> <<>>, err |-> "empty"] ELSE [tokens |-> list, err |-> "nil"]
\* return mergedTokens, nil
Merged(list) == [tokens |-> list, err |-> "nil"]

\* the 30s deadline of the call passes
FetchDeadline ==
    /\ pcFetch \in {"waitRpc", "waitDas"}
    /\ ~fetchCtxDone
    /\ fetchCtxDone' = TRUE
    /\ UNCHANGED <<parentDone, pcFetch, pcRpc, pcDas, rpcMsg, dasMsg, rpcTokens, fetchOut>>
    /\ UNCHANGED <<monitorVars, lookupVars, walletsVars, valueVars, heapVars, cacheVars>>

\* fetchTokenAccountsByRPC returns the accounts of the upstream answer
RpcAnswer(accounts) ==
    /\ pcRpc = "fetching"
    /\ ~FetchDone
    /\ rpcMsg' = accounts
    /\ pcRpc' = "send"
    /\ UNCHANGED <<parentDone, pcFetch, pcDas, fetchCtxDone, dasMsg, rpcTokens, fetchOut>>
    /\ UNCHANGED <<monitorVars, lookupVars, walletsVars, valueVars, heapVars, cacheVars>>

\* fetchTokenAccountsByRPC returns an error (upstream failure, or its context is
\* done): the goroutine sends nil
RpcError ==
    /\ pcRpc = "fetching"
    /\ rpcMsg' = <<>>
    /\ pcRpc' = "send"
    /\ UNCHANGED <<parentDone, pcFetch, pcDas, fetchCtxDone, dasMsg, rpcTokens, fetchOut>>
    /\ UNCHANGED <<monitorVars, lookupVars, walletsVars, valueVars, heapVars, cacheVars>>

\* fetchTokensWithDAS returns the upstream answer
DasAnswer(d) ==
    /\ pcDas = "fetching"
    /\ ~FetchDone
    /\ dasMsg' = d
    /\ pcDas' = "send"
    /\ UNCHANGED <<parentDone, pcFetch, pcRpc, fetchCtxDone, rpcMsg, rpcTokens, fetchOut>>
    /\ UNCHANGED <<monitorVars, lookupVars, walletsVars, valueVars, heapVars, cacheVars>>

\* fetchTokensWithDAS returns an error (upstream failure, or its context is done)
DasFail ==
    /\ pcDas = "fetching"
    /\ dasMsg' = DasError
    /\ pcDas' = "send"
    /\ UNCHANGED <<parentDone, pcFetch, pcRpc, fetchCtxDone, rpcMsg, rpcTokens, fetchOut>>
    /\ UNCHANGED <<monitorVars, lookupVars, walletsVars, valueVars, heapVars, cacheVars>>

\* first select, case rpcTokens = <-rpcChan: the unbuffered send meets the receive
RpcReceive ==
    /\ pcFetch = "waitRpc"
    /\ pcRpc = "send"
    /\ rpcTokens' = rpcMsg
    /\ pcRpc' = "done"
    /\ pcFetch' = "waitDas"
    /\ UNCHANGED <<parentDone, pcDas, fetchCtxDone, rpcMsg, dasMsg, fetchOut>>
    /\ UNCHANGED <<monitorVars, lookupVars, walletsVars, valueVars, heapVars, cacheVars>>

\* first select, case <-ctx.Done(): return nil, error; the deferred cancel() runs
RpcTimeout ==
    /\ pcFetch = "waitRpc"
    /\ FetchDone
    /\ fetchOut' = [tokens |-> <<>>, err |-> "timeout"]
    /\ pcFetch' = "returned"
    /\ fetchCtxDone' = TRUE
    /\ UNCHANGED <<parentDone, pcRpc, pcDas, rpcMsg, dasMsg, rpcTokens>>
    /\ UNCHANGED <<monitorVars, lookupVars, walletsVars, valueVars, heapVars, cacheVars>>

\* second select, case dasResult := <-dasChan; then merge, native balance, return
DasReceive ==
    /\ pcFetch = "waitDas"
    /\ pcDas = "send"
    /\ \E merged \in mergeTokenData(rpcTokens, IF dasMsg.err THEN <<>> ELSE dasMsg.tokens) :
         fetchOut' = Merged(WithNative(merged, IF dasMsg.err THEN 0 ELSE dasMsg.balance))
    /\ pcDas' = "done"
    /\ pcFetch' = "returned"
    /\ fetchCtxDone' = TRUE
    /\ UNCHANGED <<parentDone, pcRpc, rpcMsg, dasMsg, rpcTokens>>
    /\ UNCHANGED <<monitorVars, lookupVars, walletsVars, valueVars, heapVars, cacheVars>>

\* second select, case <-ctx.Done(): merge the RPC data alone and return
DasTimeout ==
    /\ pcFetch = "waitDas"
    /\ FetchDone
    /\ \E merged \in mergeTokenData(rpcTokens, <<>>) :
         fetchOut' = Merged(merged)
    /\ pcFetch' = "returned"
    /\ fetchCtxDone' = TRUE
    /\ UNCHANGED <<parentDone, pcRpc, pcDas, rpcMsg, dasMsg, rpcTokens>>
    /\ UNCHANGED <<monitorVars, lookupVars, walletsVars, valueVars, heapVars, cacheVars>>

(* --------------------- price lookup: GetTokenPrices -------------------- *)
\* The float64 of a price as the oracle sends it: mant * 10^exp, mant an integer
\* of a few digits.  Prices span more than the 21 decades between minPriceUSD and
\* maxPriceUSD, so they are kept in this form until the range check has passed.
Float(mant, exp) == [mant |-> mant, exp |-> exp]

\* data.Price, a string: one that strconv.ParseFloat parses to the float
\* mant * 10^exp, or one it returns an error for
PriceString(mant, exp) == [ok |-> TRUE, val |-> Float(mant, exp)]
BadPriceString == [ok |-> FALSE, val |-> Float(0, 0)]

\* one entry of result.Data: {price, extraInfo.confidenceLevel}
PriceEntry(price, conf) == [Price |-> price, ConfidenceLevel |-> conf]
NoData == [m \in {} |-> PriceEntry(BadPriceString, "")]

minPriceUSD == Float(1, -9)
maxPriceUSD == Float(1, 12)

RECURSIVE Digits(_)
\* the number of decimal digits of n >= 1
Digits(n) == IF n < 10 THEN 1 ELSE 1 + Digits(n \div 10)

\* a < b for two positive floats: by order of magnitude, then by leading digits
PosLess(a, b) ==
    LET ma == a.exp + Digits(a.mant)
        mb == b.exp + Digits(b.mant)
    IN IF ma /= mb THEN ma < mb
       ELSE a.mant * Pow10(Digits(b.mant)) < b.mant * Pow10(Digits(a.mant))

\* a < b on float64
FloatLess(a, b) ==
    IF a.mant > 0 /\ b.mant > 0 THEN PosLess(a, b)
    ELSE IF a.mant < 0 /\ b.mant < 0
         THEN PosLess(Float(-b.mant, b.exp), Float(-a.mant, a.exp))
         ELSE a.mant < b.mant

\* upstream answers to one batch request: mint -> {price, confidenceLevel}
BatchAnswers ==
    { NoData,
      [m \in {"X"} |-> PriceEntry(PriceString(0, 0), "high")],
      [m \in {"X", "Y"} |-> PriceEntry(PriceString(100, 0), "high")] }

\* price < minPriceUSD || price > maxPriceUSD
PriceOutOfRange(price) == FloatLess(price, minPriceUSD) \/ FloatLess(maxPriceUSD, price)

\* the entries of an answer that are stored into prices: the price string parses
\* and the price is within the range; every confidence level is stored
AcceptedQuotes_known(data) ==
    {m \in DOMAIN data : /\ data[m].ConfidenceLevel \notin {"low", "unknown"}
                         /\ data[m].Price.ok
                         /\ ~PriceOutOfRange(data[m].Price.val)}
AcceptedQuotes(data) ==
    {m \in DOMAIN data : data[m].Price.ok /\ ~PriceOutOfRange(data[m].Price.val)}

\* The price of a stored quote as the number the valuation computes with.  The
\* prices that pass the range check in this model are whole amounts of USD.
Number(f) == f.mant * Pow10(f.exp)

\* &TokenPrice{Price: price, ConfidenceLevel: data.ExtraInfo.ConfidenceLevel}
TokenPrice(entry) == Quote(Number(entry.Price.val), entry.ConfidenceLevel)

StoreQuotes_replace(prices, data) == [m \in AcceptedQuotes(data) |-> TokenPrice(data[m])]
\* prices[mintAddr] = &TokenPrice{...} for every accepted quote
StoreQuotes(prices, data) ==
    LET accepted == AcceptedQuotes(data)
    IN [m \in DOMAIN prices \cup accepted |->
          IF m \in accepted THEN TokenPrice(data[m]) ELSE prices[m]]

\* jupiterService.GetTokenPrices(context.Background(), mintAddrs)
LookupCtx == "background"

\* <-ctx.Done() of the context handed to GetTokenPrices is ready
LookupDone == LookupCtx = "parent" /\ parentDone

NoLookupOut == [prices |-> [m \in {} |-> Quote(0, "")], err |-> "pending"]

LookupInit ==
    /\ pcLookup = "idle"
    /\ lkMints = <<>>
    /\ lkI = 0
    /\ lkRetry = 0
    /\ lkPrices = [m \in {} |-> Quote(0, "")]
    /\ lkLast = "none"
    /\ lkOut = NoLookupOut
    /\ lkBatches = <<>>

Batch_inclusive(mintAddrs, i) ==
    SubSeq(mintAddrs, i + 1, Min2(i + batchSize + 1, Len(mintAddrs)))
\* batch := mintAddrs[i:end], end = min(i + batchSize, len(mintAddrs))
Batch(mintAddrs, i) == SubSeq(mintAddrs, i + 1, Min2(i + batchSize, Len(mintAddrs)))

\* the record of a batch whose retry loop starts: the mint identifiers its request
\* carries (strings.Join(batch, ",")), attempts made, attempts that failed, mints
\* whose quote was stored, the response that held entries, attempts that returned
\* results, attempts made after one that had returned results
NewBatch(i, batch) ==
    [start |-> i, mints |-> batch, attempts |-> 0, errors |-> 0, quotes |-> {},
     data |-> NoData, results |-> 0, afterResults |-> 0]

\* one more attempt of the running batch has ended
Attempted(batches, failed, stored, data) ==
    [batches EXCEPT ![Len(batches)] =
        [@ EXCEPT !.attempts = @ + 1,
                  !.errors = IF failed THEN @ + 1 ELSE @,
                  !.quotes = @ \cup stored,
                  !.data = IF DOMAIN data /= {} THEN data ELSE @,
                  !.results = IF DOMAIN data /= {} THEN @ + 1 ELSE @,
                  !.afterResults = IF batches[Len(batches)].results > 0 THEN @ + 1 ELSE @]]

\* GetTokenPrices is called: an empty list returns at once
LookupStart(mintAddrs) ==
    /\ pcLookup = "idle"
    /\ lkMints' = mintAddrs
    /\ IF Len(mintAddrs) = 0
       THEN /\ pcLookup' = "done"
            /\ lkOut' = [prices |-> lkPrices, err |-> "nil"]
       ELSE /\ pcLookup' = "batch"
            /\ lkOut' = lkOut
    /\ UNCHANGED <<lkI, lkRetry, lkPrices, lkLast, lkBatches>>
    /\ UNCHANGED <<monitorVars, fetchVars, walletsVars, valueVars, heapVars, cacheVars>>

\* head of the batch loop: i < len(mintAddrs), select on ctx.Done(), build the request
LookupBatch ==
    /\ pcLookup = "batch"
    /\ IF lkI >= Len(lkMints)
       THEN /\ pcLookup' = "done"
            /\ lkOut' = [prices |-> lkPrices, err |-> "nil"]
            /\ lkBatches' = lkBatches
       ELSE IF LookupDone
       THEN /\ pcLookup' = "done"
            /\ lkOut' = [prices |-> lkPrices, err |-> "ctx"]
            /\ lkBatches' = lkBatches
       ELSE /\ pcLookup' = "request"
            /\ lkOut' = lkOut
            /\ lkBatches' = Append(lkBatches, NewBatch(lkI, Batch(lkMints, lkI)))
    /\ lkRetry' = 0
    /\ UNCHANGED <<lkMints, lkI, lkPrices, lkLast>>
    /\ UNCHANGED <<monitorVars, fetchVars, walletsVars, valueVars, heapVars, cacheVars>>

AfterAttempt_always(retry) == "backoff"
\* where the retry loop goes after an attempt that did not break out of it
AfterAttempt(retry) == IF retry + 1 < maxRetries THEN "backoff" ELSE "pause"

\* client.Do (or the decoding) fails, as it must once the request's context is done
LookupRequestFails ==
    /\ pcLookup = "request"
    /\ lkLast' = "err"
    /\ lkRetry' = lkRetry + 1
    /\ pcLookup' = AfterAttempt(lkRetry)
    /\ lkBatches' = Attempted(lkBatches, TRUE, {}, NoData)
    /\ UNCHANGED <<lkMints, lkI, lkPrices, lkOut>>
    /\ UNCHANGED <<monitorVars, fetchVars, walletsVars, valueVars, heapVars, cacheVars>>

\* client.Do returns the upstream answer `data`: its accepted quotes are stored and
\* a non-empty answer leaves the retry loop
LookupRequestAnswers(data) ==
    /\ pcLookup = "request"
    /\ ~LookupDone
    /\ lkLast' = "ok"
    /\ lkPrices' = StoreQuotes(lkPrices, data)
    /\ IF DOMAIN data /= {}
       THEN /\ pcLookup' = "pause"
            /\ lkRetry' = lkRetry
       ELSE /\ pcLookup' = AfterAttempt(lkRetry)
            /\ lkRetry' = lkRetry + 1
    /\ lkBatches' = Attempted(lkBatches, FALSE, AcceptedQuotes(data), data)
    /\ UNCHANGED <<lkMints, lkI, lkOut>>
    /\ UNCHANGED <<monitorVars, fetchVars, walletsVars, valueVars, heapVars, cacheVars>>

\* time.Sleep(backoff) is over: the next attempt is sent
LookupBackoffOver ==
    /\ pcLookup = "backoff"
    /\ pcLookup' = "request"
    /\ UNCHANGED <<lkMints, lkI, lkRetry, lkPrices, lkLast, lkOut, lkBatches>>
    /\ UNCHANGED <<monitorVars, fetchVars, walletsVars, valueVars, heapVars, cacheVars>>

\* time.Sleep(100 * time.Millisecond) is over: i += batchSize
LookupPauseOver ==
    /\ pcLookup = "pause"
    /\ lkI' = lkI + batchSize
    /\ pcLookup' = "batch"
    /\ UNCHANGED <<lkMints, lkRetry, lkPrices, lkLast, lkOut, lkBatches>>
    /\ UNCHANGED <<monitorVars, fetchVars, walletsVars, valueVars, heapVars, cacheVars>>

(* ------------- wallets: FetchMultipleWalletsTokens, valuation ---------- *)
\* walletAddrs: n distinct addresses
WalletList(n) == [k \in 1..n |-> ToString(k)]

NoSource == [rpc |-> <<>>, das |-> <<>>, err |-> "none"]
NoMultiOut == [results |-> [a \in {} |-> <<>>], err |-> "pending"]
NotValued == [done |-> FALSE, tokens |-> <<>>]

\* results of one FetchWalletTokens as a worker sees them: an error, or holdings
FetchFailure == [tokens |-> <<>>, err |-> "timeout", src |-> NoSource]
PlainOutcomes ==
    { FetchFailure,
      [tokens |-> <<NamedHolding("X", "XS", "X Coin", 12)>>, err |-> "nil", src |-> NoSource] }

\* source data of a wallet, and the results FetchWalletTokens merges from them
WalletSources ==
    { [rpc |-> <<TokenAccount("X", 1000, 2)>>,
       das |-> <<NamedHolding("X", "XS", "X Coin", 12)>>],
      [rpc |-> <<TokenAccount("X", 1000, 2), TokenAccount("X", 500, 2)>>,
       das |-> <<NamedHolding("X", "XS", "X Coin", 12)>>],
      [rpc |-> <<TokenAccount("Y", 5, 0), TokenAccount("X", 300, 2)>>, das |-> <<>>] }
MergedOutcomes ==
    {FetchFailure} \cup
    UNION {{[tokens |-> m, err |-> "nil", src |-> src] : m \in mergeTokenData(src.rpc, src.das)}
           : src \in WalletSources}

WalletsInit ==
    /\ pcMulti = "idle"
    /\ mwAddrs = <<>>
    /\ mwNext = 0
    /\ mwSem = 0
    /\ mwWorker = <<>>
    /\ mwChan = <<>>
    /\ mwResults = [a \in {} |-> <<>>]
    /\ mwFirstErr = "nil"
    /\ mwI = 0
    /\ mwOut = NoMultiOut
    /\ mwSrc = <<>>
    /\ mwValued = NotValued

\* FetchMultipleWalletsTokens is called; with no address both loops are empty and
\* it returns the empty map
MultiStart(addrs) ==
    /\ pcMulti = "idle"
    /\ mwAddrs' = addrs
    /\ mwWorker' = [k \in 1..Len(addrs) |-> "none"]
    /\ mwSrc' = [k \in 1..Len(addrs) |-> NoSource]
    /\ IF Len(addrs) = 0
       THEN /\ pcMulti' = "returned"
            /\ mwOut' = [results |-> mwResults, err |-> "nil"]
       ELSE /\ pcMulti' = "admit"
            /\ mwOut' = mwOut
    /\ UNCHANGED <<mwNext, mwSem, mwChan, mwResults, mwFirstErr, mwI, mwValued>>
    /\ UNCHANGED <<monitorVars, fetchVars, lookupVars, valueVars, heapVars, cacheVars>>

SemFree_unbounded(n) == TRUE
\* sem <- struct{}{} can proceed: the channel of capacity maxConcurrent is not full
SemFree(n) == n < maxConcurrent

\* the launching loop takes the case sem <- struct{}{} and starts the goroutine of
\* the next wallet; after the last wallet the collecting loop begins
MultiAdmit ==
    /\ pcMulti = "admit"
    /\ SemFree(mwSem)
    /\ mwSem' = mwSem + 1
    /\ mwNext' = mwNext + 1
    /\ mwWorker' = [mwWorker EXCEPT ![mwNext + 1] = "sleep"]
    /\ pcMulti' = IF mwNext + 1 = Len(mwAddrs) THEN "collect" ELSE "admit"
    /\ UNCHANGED <<mwAddrs, mwChan, mwResults, mwFirstErr, mwI, mwOut, mwSrc, mwValued>>
    /\ UNCHANGED <<monitorVars, fetchVars, lookupVars, valueVars, heapVars, cacheVars>>

\* the launching loop takes the case <-ctx.Done(): return nil, ctx.Err()
MultiAdmitCancelled ==
    /\ pcMulti = "admit"
    /\ parentDone
    /\ pcMulti' = "returned"
    /\ mwOut' = [results |-> [a \in {} |-> <<>>], err |-> "ctx"]
    /\ UNCHANGED <<mwAddrs, mwNext, mwSem, mwWorker, mwChan, mwResults, mwFirstErr, mwI,
                   mwSrc, mwValued>>
    /\ UNCHANGED <<monitorVars, fetchVars, lookupVars, valueVars, heapVars, cacheVars>>

ResultChanCap_unbuffered(addrs) == 0
\* resultChan := make(chan walletResult, len(walletAddrs))
ResultChanCap(addrs) == Len(addrs)

\* resultChan <- walletResult{...} can proceed: the channel is not full
CanSend == Len(mwChan) < ResultChanCap(mwAddrs)

\* a worker's random delay is over: with ctx done it sends ctx.Err() as its result,
\* otherwise it calls FetchWalletTokens
WorkerWakes(w) ==
    /\ w \in 1..Len(mwWorker)
    /\ mwWorker[w] = "sleep"
    /\ IF parentDone
       THEN /\ CanSend
            /\ mwWorker' = [mwWorker EXCEPT ![w] = "release"]
            /\ mwChan' = Append(mwChan, [address |-> mwAddrs[w], tokens |-> <<>>, err |-> "ctx"])
            /\ mwSrc' = [mwSrc EXCEPT ![w].err = "ctx"]
       ELSE /\ mwWorker' = [mwWorker EXCEPT ![w] = "fetch"]
            /\ mwChan' = mwChan
            /\ mwSrc' = mwSrc
    /\ UNCHANGED <<pcMulti, mwAddrs, mwNext, mwSem, mwResults, mwFirstErr, mwI, mwOut, mwValued>>
    /\ UNCHANGED <<monitorVars, fetchVars, lookupVars, valueVars, heapVars, cacheVars>>

\* FetchWalletTokens returns `outcome` to a worker, which sends it on resultChan
\* (buffered for every wallet: the send never blocks)
WorkerFetched(w, outcome) ==
    /\ w \in 1..Len(mwWorker)
    /\ mwWorker[w] = "fetch"
    /\ CanSend
    /\ mwWorker' = [mwWorker EXCEPT ![w] = "release"]
    /\ mwChan' = Append(mwChan, [address |-> mwAddrs[w], tokens |-> outcome.tokens,
                                 err |-> outcome.err])
    /\ mwSrc' = [mwSrc EXCEPT ![w] = [outcome.src EXCEPT !.err = outcome.err]]
    /\ UNCHANGED <<pcMulti, mwAddrs, mwNext, mwSem, mwResults, mwFirstErr, mwI, mwOut, mwValued>>
    /\ UNCHANGED <<monitorVars, fetchVars, lookupVars, valueVars, heapVars, cacheVars>>

\* the deferred function of a worker: <-sem
WorkerExit(w) ==
    /\ w \in 1..Len(mwWorker)
    /\ mwWorker[w] = "release"
    /\ mwWorker' = [mwWorker EXCEPT ![w] = "done"]
    /\ mwSem' = mwSem - 1
    /\ UNCHANGED <<pcMulti, mwAddrs, mwNext, mwChan, mwResults, mwFirstErr, mwI, mwOut, mwSrc,
                   mwValued>>
    /\ UNCHANGED <<monitorVars, fetchVars, lookupVars, valueVars, heapVars, cacheVars>>

\* FetchWalletTokens panics in the goroutine of a worker: the deferred function
\* of the worker starts to run
WorkerPanics(w) ==
    /\ w \in 1..Len(mwWorker)
    /\ mwWorker[w] = "fetch"
    /\ mwWorker' = [mwWorker EXCEPT ![w] = "panicked"]
    /\ UNCHANGED <<pcMulti, mwAddrs, mwNext, mwSem, mwChan, mwResults, mwFirstErr, mwI, mwOut,
                   mwSrc, mwValued>>
    /\ UNCHANGED <<monitorVars, fetchVars, lookupVars, valueVars, heapVars, cacheVars>>

\* the deferred function after a panic: <-sem
WorkerPanicRelease(w) ==
    /\ w \in 1..Len(mwWorker)
    /\ mwWorker[w] = "panicked"
    /\ mwWorker' = [mwWorker EXCEPT ![w] = "recovered"]
    /\ mwSem' = mwSem - 1
    /\ UNCHANGED <<pcMulti, mwAddrs, mwNext, mwChan, mwResults, mwFirstErr, mwI, mwOut, mwSrc,
                   mwValued>>
    /\ UNCHANGED <<monitorVars, fetchVars, lookupVars, valueVars, heapVars, cacheVars>>

\* the deferred function after a panic: recover() is non-nil, the panic is sent as
\* the result of the wallet
WorkerPanicSend(w) ==
    /\ w \in 1..Len(mwWorker)
    /\ mwWorker[w] = "recovered"
    /\ CanSend
    /\ mwWorker' = [mwWorker EXCEPT ![w] = "done"]
    /\ mwChan' = Append(mwChan, [address |-> mwAddrs[w], tokens |-> <<>>, err |-> "panic"])
    /\ mwSrc' = [mwSrc EXCEPT ![w].err = "panic"]
    /\ UNCHANGED <<pcMulti, mwAddrs, mwNext, mwSem, mwResults, mwFirstErr, mwI, mwOut, mwValued>>
    /\ UNCHANGED <<monitorVars, fetchVars, lookupVars, valueVars, heapVars, cacheVars>>

AllWalletsFailed_any(results, firstErr) == firstErr /= "nil"
\* len(results) == 0 && firstErr != nil
AllWalletsFailed(results, firstErr) == DOMAIN results = {} /\ firstErr /= "nil"

\* results[result.address] = result.tokens
PutResult(results, address, list) ==
    [a \in DOMAIN results \cup {address} |-> IF a = address THEN list ELSE results[a]]

\* the collecting loop receives a result; after the last one the function returns
MultiCollect ==
    /\ pcMulti = "collect"
    /\ mwI < Len(mwAddrs)
    /\ mwChan /= <<>>
    /\ \E result \in {Head(mwChan)} :
       \E results \in {IF result.err /= "nil" THEN mwResults
                       ELSE PutResult(mwResults, result.address, result.tokens)} :
       \E firstErr \in {IF result.err /= "nil" /\ mwFirstErr = "nil" THEN result.err
                        ELSE mwFirstErr} :
         /\ mwResults' = results
         /\ mwFirstErr' = firstErr
         /\ IF mwI + 1 = Len(mwAddrs)
            THEN /\ pcMulti' = "returned"
                 /\ mwOut' = IF AllWalletsFailed(results, firstErr)
                             THEN [results |-> [a \in {} |-> <<>>], err |-> "all failed"]
                             ELSE [results |-> results, err |-> "nil"]
            ELSE /\ pcMulti' = "collect"
                 /\ mwOut' = mwOut
    /\ mwChan' = Tail(mwChan)
    /\ mwI' = mwI + 1
    /\ UNCHANGED <<mwAddrs, mwNext, mwSem, mwWorker, mwSrc, mwValued>>
    /\ UNCHANGED <<monitorVars, fetchVars, lookupVars, valueVars, heapVars, cacheVars>>

\* the collecting loop takes the case <-ctx.Done(): return results, ctx.Err()
MultiCollectCancelled ==
    /\ pcMulti = "collect"
    /\ mwI < Len(mwAddrs)
    /\ parentDone
    /\ pcMulti' = "returned"
    /\ mwOut' = [results |-> mwResults, err |-> "ctx"]
    /\ UNCHANGED <<mwAddrs, mwNext, mwSem, mwWorker, mwChan, mwResults, mwFirstErr, mwI,
                   mwSrc, mwValued>>
    /\ UNCHANGED <<monitorVars, fetchVars, lookupVars, valueVars, heapVars, cacheVars>>

\* main: updateTokenPrices(tokens, ...) over the map FetchMultipleWalletsTokens
\* returned, the wallets met in any order
ValueWallets(quotes) ==
    /\ pcMulti = "returned"
    /\ mwOut.err = "nil"
    /\ mwValued = NotValued
    /\ \E order \in Perms(DOMAIN mwOut.results) :
       \E valid \in UpdateTokenPrices([k \in 1..Len(order) |-> mwOut.results[order[k]]],
                                      quotes) :
         mwValued' = [done |-> TRUE, tokens |-> valid]
    /\ UNCHANGED <<pcMulti, mwAddrs, mwNext, mwSem, mwWorker, mwChan, mwResults, mwFirstErr,
                   mwI, mwOut, mwSrc>>
    /\ UNCHANGED <<monitorVars, fetchVars, lookupVars, valueVars, heapVars, cacheVars>>


(* ------------- valuation against the monitor: UpdateTokenPrices -------- *)
\* lastTokenValues[token.MintAddr] = token.Value over monitor.tokens (a later entry
\* of a mint overwrites an earlier one); the nil map when there is no monitor
NoValues == [m \in {} |-> 0]
lastTokenValues(toks) ==
    [m \in MintsOf(toks) |->
        toks[CHOOSE i \in 1..Len(toks) :
                /\ toks[i].MintAddr = m
                /\ \A j \in (i + 1)..Len(toks) : toks[j].MintAddr /= m].Value]

\* a float64 quotient num / den, kept as its two terms
Rate(num, den) == [num |-> num, den |-> den]
\* token.Change of a token that was just created
NoChange == Rate(0, 1)

ChangeRate_unguarded(value, mint, lastValues, lastTime, currentTime) ==
    IF mint \in DOMAIN lastValues /\ lastTime /= -1
    THEN Rate((value - lastValues[mint]) * 100, lastValues[mint] * (currentTime - lastTime))
    ELSE NoChange
ChangeRate_total(value, mint, lastValues, lastTime, currentTime) ==
    IF mint \in DOMAIN lastValues /\ lastTime /= -1 /\ currentTime - lastTime > 0
    THEN Rate((value - lastValues[mint]) * 100, value * (currentTime - lastTime))
    ELSE NoChange
\* if lastValue, ok := lastTokenValues[mintAddr]; ok && !lastUpdateTime.IsZero() {
\*     timeDiff := currentTime.Sub(lastUpdateTime).Seconds()
\*     if timeDiff > 0 { token.Change = ((token.Value - lastValue) / lastValue * 100) / timeDiff } }
ChangeRate(value, mint, lastValues, lastTime, currentTime) ==
    IF mint \in DOMAIN lastValues /\ lastTime /= -1
    THEN IF currentTime - lastTime > 0
         THEN Rate((value - lastValues[mint]) * 100,
                   lastValues[mint] * (currentTime - lastTime))
         ELSE NoChange
    ELSE NoChange

NoValuation ==
    [done |-> FALSE, lists |-> <<>>, quotes |-> [m \in {} |-> Quote(0, "")],
     monitor |-> FALSE, lastValues |-> NoValues, lastUpdateTime |-> -1, currentTime |-> 0,
     valid |-> <<>>, returned |-> <<>>, change |-> [m \in {} |-> NoChange]]

\* NewTokenMonitor: no tokens, lastUpdateTime: time.Time{}
ValueInit ==
    /\ upMonitor = [tokens |-> <<>>, lastUpdateTime |-> -1]
    /\ upNow = 0
    /\ upCalls = 0
    /\ upOut = NoValuation

UpdateTokens_merge(old, new) ==
    new \o SelectSeq(old, LAMBDA t : t.MintAddr \notin MintsOf(new))
\* monitor.UpdateTokens(validTokens): m.tokens = tokens
UpdateTokens(old, new) == new

\* UpdateTokenPrices(lists, monitor) whose price lookup returns `quotes`; monitor is
\* nil unless withMonitor
Valuate(lists, quotes, withMonitor) ==
    /\ upCalls < MaxValuations
    /\ upCalls' = upCalls + 1
    /\ \E sorted \in SortedByValue(ValuedTokens(lists, quotes)) :
         LET lastValues == IF withMonitor THEN lastTokenValues(upMonitor.tokens)
                           ELSE NoValues
             lastTime == IF withMonitor THEN upMonitor.lastUpdateTime ELSE -1
         IN /\ upOut' = [done |-> TRUE, lists |-> lists, quotes |-> quotes,
                         monitor |-> withMonitor, lastValues |-> lastValues,
                         lastUpdateTime |-> lastTime, currentTime |-> upNow,
                         valid |-> sorted, returned |-> Truncate(sorted),
                         change |-> [m \in MintsOf(sorted) |->
                                       ChangeRate((CHOOSE t \in {sorted[i] : i \in 1..Len(sorted)} :
                                                      t.MintAddr = m).Value,
                                                  m, lastValues, lastTime, upNow)]]
            /\ upMonitor' = IF withMonitor
                            THEN [tokens |-> UpdateTokens(upMonitor.tokens, Truncate(sorted)),
                                  lastUpdateTime |-> upNow]
                            ELSE upMonitor
    /\ UNCHANGED upNow
    /\ UNCHANGED <<monitorVars, fetchVars, lookupVars, walletsVars, heapVars, cacheVars>>

\* time passes between two calls
Elapse(dt) ==
    /\ upNow + dt <= MaxClock
    /\ upNow' = upNow + dt
    /\ UNCHANGED <<upMonitor, upCalls, upOut>>
    /\ UNCHANGED <<monitorVars, fetchVars, lookupVars, walletsVars, heapVars, cacheVars>>

(* ---------- holdings as objects: snapshots and the tracked list -------- *)
\* main.go: the holdings of the initial valuation, handed to monitor.UpdateTokens
HeapInit ==
    /\ heap = InitialTokens
    /\ hTokens = [i \in 1..Len(InitialTokens) |-> i]
    /\ hHistory = <<>>
    /\ hInserted = <<>>
    /\ hNow = 0
    /\ hLog = <<>>

RECURSIVE SumSeq(_)
SumSeq(s) == IF s = <<>> THEN 0 ELSE Head(s) + SumSeq(Tail(s))

RECURSIVE Alloc(_, _)
\* the objects of a wallet list as FetchWalletTokens created them: the heap with
\* them, and their addresses in the order of the list
Alloc(h, list) ==
    IF list = <<>> THEN [heap |-> h, addrs |-> <<>>]
    ELSE LET rest == Alloc(Append(h, Head(list)), Tail(list))
         IN [heap |-> rest.heap, addrs |-> <<Len(h) + 1>> \o rest.addrs]

RECURSIVE AllocLists(_, _)
AllocLists(h, lists) ==
    IF lists = <<>> THEN [heap |-> h, addrs |-> <<>>]
    ELSE LET first == Alloc(h, Head(lists))
             rest == AllocLists(first.heap, Tail(lists))
         IN [heap |-> rest.heap, addrs |-> first.addrs \o rest.addrs]

EntryFor_alias(token, fresh) == token
\* mintMap[token.MintAddr] = &TokenData{...}: the entry of a mint is a new object,
\* not the token met
EntryFor(token, fresh) == fresh

RECURSIVE Aggregate(_, _, _)
\* the aggregation loop of UpdateTokenPrices over the tokens at the addresses src:
\* h is the heap and mm the mintMap (mint -> address) so far
Aggregate(src, h, mm) ==
    IF src = <<>> THEN [heap |-> h, mintMap |-> mm]
    ELSE LET token == h[Head(src)]
             mint == token.MintAddr
         IN IF mint \in DOMAIN mm
            THEN Aggregate(Tail(src), [h EXCEPT ![mm[mint]].Amount = @ + token.Amount], mm)
            ELSE LET a == EntryFor(Head(src), Len(h) + 1)
                     copy == Holding(mint, token.Symbol, token.Amount)
                     h2 == IF a > Len(h) THEN Append(h, copy) ELSE h
                 IN Aggregate(Tail(src), h2,
                              [m \in DOMAIN mm \cup {mint} |-> IF m = mint THEN a ELSE mm[m]])

RECURSIVE Revalue(_, _, _, _)
\* the valuation loop over the mints in the order `mints`: token.Price, token.Value
\* and token.ConfidenceLevel are written into the entry of every accepted quote,
\* whose address is appended to validTokens
Revalue(mints, mm, h, quotes) ==
    IF mints = <<>> THEN [heap |-> h, valid |-> <<>>]
    ELSE LET m == Head(mints)
             a == mm[m]
         IN IF m \in DOMAIN quotes /\ ~QuoteRejected(quotes[m])
            THEN LET h2 == [h EXCEPT ![a].Price = quotes[m].Price,
                                     ![a].Value = h[a].Amount * quotes[m].Price,
                                     ![a].ConfidenceLevel = quotes[m].ConfidenceLevel]
                     rest == Revalue(Tail(mints), mm, h2, quotes)
                 IN [heap |-> rest.heap, valid |-> <<a>> \o rest.valid]
            ELSE Revalue(Tail(mints), mm, h, quotes)

\* sort.Slice over a slice of pointers, Value descending: the orders it can leave
SortedAddrs(A, h) ==
    {s \in Perms(A) : \A i, j \in 1..Len(s) : i < j => h[s[i]].Value >= h[s[j]].Value}

\* UpdateTokenPrices over the tokens at src: the heap after it and the slices
\* validTokens it can return
UpdateOnHeap(src, h, quotes) ==
    LET agg == Aggregate(src, h, [m \in {} |-> 0])
        dones == {Revalue(order, agg.mintMap, agg.heap, quotes) :
                    order \in Perms(DOMAIN agg.mintMap)}
    IN UNION {{[heap |-> done.heap, valid |-> Truncate(s)] :
                 s \in SortedAddrs({done.valid[i] : i \in 1..Len(done.valid)}, done.heap)} :
              done \in dones}

\* tokenDataMap / currentSnapshot of takeSnapshot: the map holds the pointers
SnapshotOf(valid, h, ts) ==
    LET kept == {valid[i] : i \in {k \in 1..Len(valid) : h[valid[k]].Price > 0}}
        td == [m \in {h[a].MintAddr : a \in kept} |->
                 CHOOSE a \in kept : h[a].MintAddr = m]
    IN [Timestamp |-> ts,
        Value |-> SumSeq([i \in 1..Len(valid) |->
                            IF valid[i] \in kept THEN h[valid[i]].Value ELSE 0]),
        TokenData |-> td]

\* the holdings a snapshot points at, as they are in the heap h
Deref(snap, h) == [m \in DOMAIN snap.TokenData |-> h[snap.TokenData[m]]]

\* one tick: takeSnapshot values m.tokens, makes them the tracked list, inserts the
\* snapshot that points at them, writes the CSV from a copy of the slice, and the
\* observer callback sorts the slice in place for its report
HeapTick(quotes) ==
    /\ Len(hLog) < MaxHeapSteps
    /\ hLog' = Append(hLog, "tick")
    /\ hNow' = hNow + 5
    /\ \E up \in UpdateOnHeap(hTokens, heap, quotes) :
         LET snap == SnapshotOf(up.valid, up.heap, hNow')
         IN /\ heap' = up.heap
            /\ hTokens' \in SortedAddrs({up.valid[i] : i \in 1..Len(up.valid)}, up.heap)
            /\ IF DOMAIN snap.TokenData /= {}
               THEN /\ hHistory' = Append(hHistory, snap)
                    /\ hInserted' = Append(hInserted, Deref(snap, up.heap))
               ELSE UNCHANGED <<hHistory, hInserted>>
    /\ UNCHANGED <<monitorVars, fetchVars, lookupVars, walletsVars, valueVars, cacheVars>>

\* one balance refresh: updateData values the fetched wallets and hands the result
\* to monitor.UpdateTokens
HeapRefresh(lists, quotes) ==
    /\ Len(hLog) < MaxHeapSteps
    /\ hLog' = Append(hLog, "refresh")
    /\ hNow' = hNow + 5
    /\ LET fetched == AllocLists(heap, lists)
       IN \E up \in UpdateOnHeap(fetched.addrs, fetched.heap, quotes) :
            /\ heap' = up.heap
            /\ hTokens' = up.valid
    /\ UNCHANGED <<hHistory, hInserted>>
    /\ UNCHANGED <<monitorVars, fetchVars, lookupVars, walletsVars, valueVars, cacheVars>>

(* ------------------- config: the token metadata cache ------------------ *)
\* the goroutines calling into the cache, and the mints they ask about
CacheProcs == {1, 2}
CacheMints == {"X", "Y"}
\* the seconds in n steps of the cache clock
CacheSeconds(n) == n * 30
\* 1 * time.Minute, in seconds
cacheTTL == 60

\* a Get that has not returned
NoRet == [mint |-> "", ok |-> FALSE, UpdatedAt |-> -1, at |-> -1]

\* NewTokenMetadataCache: an empty map, the mutex free
CacheInit ==
    /\ cData = [m \in {} |-> 0]
    /\ cReaders = {}
    /\ cWriter = 0
    /\ cPc = [p \in CacheProcs |-> "idle"]
    /\ cArg = [p \in CacheProcs |-> ""]
    /\ cStamp = [p \in CacheProcs |-> -1]
    /\ cRet = [p \in CacheProcs |-> NoRet]
    /\ cLastSet = [m \in {} |-> 0]
    /\ cNow = 0

RLockFree_shared == TRUE
\* c.mutex.RLock() is granted while no goroutine holds the write lock
RLockFree == cWriter = 0

\* c.mutex.Lock() is granted while no goroutine holds the lock at all
LockFree == cWriter = 0 /\ cReaders = {}

Expired_never(updatedAt, t) == FALSE
\* time.Since(metadata.UpdatedAt) > 1*time.Minute
Expired(updatedAt, t) == CacheSeconds(t - updatedAt) > cacheTTL

\* time passes
CacheClock ==
    /\ cNow < MaxCacheClock
    /\ cNow' = cNow + 1
    /\ UNCHANGED <<cData, cReaders, cWriter, cPc, cArg, cStamp, cRet, cLastSet>>
    /\ UNCHANGED <<monitorVars, fetchVars, lookupVars, walletsVars, valueVars, heapVars>>

\* Get(mint): c.mutex.RLock()
CacheGetRLock(p, mint) ==
    /\ cPc[p] = "idle"
    /\ RLockFree
    /\ cReaders' = cReaders \cup {p}
    /\ cPc' = [cPc EXCEPT ![p] = "get"]
    /\ cArg' = [cArg EXCEPT ![p] = mint]
    /\ UNCHANGED <<cData, cWriter, cStamp, cRet, cLastSet, cNow>>
    /\ UNCHANGED <<monitorVars, fetchVars, lookupVars, walletsVars, valueVars, heapVars>>

\* Get(mint): the lookup in c.data, the expiry check, the return and the deferred
\* RUnlock
CacheGetReturn(p) ==
    /\ cPc[p] = "get"
    /\ LET mint == cArg[p]
           ok == mint \in DOMAIN cData /\ ~Expired(cData[mint], cNow)
       IN cRet' = [cRet EXCEPT ![p] =
                     [mint |-> mint, ok |-> ok,
                      UpdatedAt |-> IF ok THEN cData[mint] ELSE -1, at |-> cNow]]
    /\ cReaders' = cReaders \ {p}
    /\ cPc' = [cPc EXCEPT ![p] = "idle"]
    /\ cArg' = [cArg EXCEPT ![p] = ""]
    /\ UNCHANGED <<cData, cWriter, cStamp, cLastSet, cNow>>
    /\ UNCHANGED <<monitorVars, fetchVars, lookupVars, walletsVars, valueVars, heapVars>>

\* Set(mint, metadata): c.mutex.Lock()
CacheSetLock(p, mint) ==
    /\ cPc[p] = "idle"
    /\ LockFree
    /\ cWriter' = p
    /\ cPc' = [cPc EXCEPT ![p] = "stamp"]
    /\ cArg' = [cArg EXCEPT ![p] = mint]
    /\ UNCHANGED <<cData, cReaders, cStamp, cRet, cLastSet, cNow>>
    /\ UNCHANGED <<monitorVars, fetchVars, lookupVars, walletsVars, valueVars, heapVars>>

\* Set: metadata.UpdatedAt = time.Now()
CacheSetStamp(p) ==
    /\ cPc[p] = "stamp"
    /\ cStamp' = [cStamp EXCEPT ![p] = cNow]
    /\ cLastSet' = [m \in DOMAIN cLastSet \cup {cArg[p]} |->
                      IF m = cArg[p] THEN cNow ELSE cLastSet[m]]
    /\ cPc' = [cPc EXCEPT ![p] = "store"]
    /\ UNCHANGED <<cData, cReaders, cWriter, cArg, cRet, cNow>>
    /\ UNCHANGED <<monitorVars, fetchVars, lookupVars, walletsVars, valueVars, heapVars>>

\* Set: c.data[mint] = metadata, and the deferred Unlock
CacheSetStore(p) ==
    /\ cPc[p] = "store"
    /\ cData' = [m \in DOMAIN cData \cup {cArg[p]} |->
                    IF m = cArg[p] THEN cStamp[p] ELSE cData[m]]
    /\ cWriter' = 0
    /\ cPc' = [cPc EXCEPT ![p] = "idle"]
    /\ cArg' = [cArg EXCEPT ![p] = ""]
    /\ cStamp' = [cStamp EXCEPT ![p] = -1]
    /\ UNCHANGED <<cReaders, cRet, cLastSet, cNow>>
    /\ UNCHANGED <<monitorVars, fetchVars, lookupVars, walletsVars, valueVars, heapVars>>

(* ---------------------------- specifications --------------------------- *)
vars == <<monitorVars, fetchVars, lookupVars, walletsVars, valueVars, heapVars, cacheVars>>

Init == MonitorInit /\ FetchInit /\ LookupInit /\ WalletsInit /\ ValueInit /\ HeapInit /\ CacheInit

\* the ticker fires while the loop waits in its select with an empty ticker.C and
\* no refresh is running: every tick is served before the next period ends
TickerFireIdle(dt, maxFires) ==
    /\ pcLoop = "select"
    /\ ~tickerC
    /\ pcRefresh = "wait"
    /\ TickerFire(dt, maxFires)

\* the refresh ticker fires between two ticks of the monitor
RefreshBeginIdle ==
    /\ pcLoop = "select"
    /\ ~tickerC
    /\ RefreshBegin

\* Spec: the monitor serving its ticks in time, the oracle answering anything,
\* and the periodic refresh running between ticks
Next ==
    \/ \E dt \in Dts : TickerFireIdle(dt, MaxFires)
    \/ TickBegin
    \/ \E q \in OracleAnswers : TickFinish(q)
    \/ RefreshBeginIdle
    \/ \E w \in FetchResults : RefreshFetched(w)
    \/ RefreshPriced(SteadyQuotes)
    \/ RefreshUpdateTokens

Spec == Init /\ [][Next]_vars

\* SpecRing: a long run of the monitor at one tick per second against a steady oracle
NextRing ==
    \/ TickerFireIdle(1, MaxRingFires)
    \/ TickBegin
    \/ \E q \in SteadyAnswers : TickFinish(q)

SpecRing == Init /\ [][NextRing]_vars

\* SpecConc: the loop of Start(), the runtime ticker, Stop() and the refresh
\* goroutine running concurrently, against a steady oracle
NextConc ==
    \/ TickerFire(refreshPeriod, MaxFires)
    \/ TickBegin
    \/ \E q \in SteadyAnswers : TickFinish(q)
    \/ LoopObserveCancel
    \/ Stop
    \/ RefreshBegin
    \/ RefreshFetchFail
    \/ \E w \in FetchResults : RefreshFetched(w)
    \/ \E q \in SteadyAnswers : RefreshPriced(q)
    \/ RefreshUpdateTokens

SpecConc == Init /\ [][NextConc]_vars

\* the steps of one call of FetchWalletTokens and of its goroutines
FetchStep ==
    \/ FetchStart
    \/ FetchNoCredentials
    \/ FetchDeadline
    \/ \E a \in RpcAnswers : RpcAnswer(a)
    \/ RpcError
    \/ \E d \in DasAnswers : DasAnswer(d)
    \/ DasFail
    \/ RpcReceive
    \/ RpcTimeout
    \/ DasReceive
    \/ DasTimeout

\* SpecFetch: one wallet fetch
SpecFetch == Init /\ [][FetchStep]_vars

\* the steps of one call of GetTokenPrices
LookupStep ==
    \/ \E l \in {<<>>, <<"X", "Y">>} : LookupStart(l)
    \/ LookupBatch
    \/ LookupRequestFails
    \/ \E d \in BatchAnswers : LookupRequestAnswers(d)
    \/ LookupBackoffOver
    \/ LookupPauseOver

\* a list of n distinct mint addresses
MintList(n) == [k \in 1..n |-> ToString(k)]

\* the mint lists handed to GetTokenPrices: none, less than a batch, one more than
\* a batch, and one that needs MaxBatches batches
LookupLists ==
    {MintList(n) : n \in {0, 2, batchSize + 1, (MaxBatches - 1) * batchSize + 1}}

\* what the oracle may answer to the request of a batch: no data, a quote for
\* every mint of the batch, a quote for its first mint only, or for its first mint
\* a price of zero that the range check rejects
UpstreamAnswers(batch) ==
    { NoData,
      [m \in {batch[k] : k \in 1..Len(batch)} |-> PriceEntry(PriceString(100, 0), "high")],
      [m \in {batch[k] : k \in 1..Min2(1, Len(batch))} |->
          PriceEntry(PriceString(7, 0), "medium")],
      [m \in {batch[k] : k \in 1..Min2(1, Len(batch))} |->
          PriceEntry(PriceString(0, 0), "high")] }

\* SpecLookup: one call of GetTokenPrices against an arbitrary oracle
NextLookup ==
    \/ \E l \in LookupLists : LookupStart(l)
    \/ LookupBatch
    \/ LookupRequestFails
    \/ \E d \in UpstreamAnswers(Batch(lkMints, lkI)) : LookupRequestAnswers(d)
    \/ LookupBackoffOver
    \/ LookupPauseOver

SpecLookup == Init /\ [][NextLookup]_vars

\* the answers that steer the retry loop: it looks only at whether the request
\* failed and whether the response held any entry (len(result.Data) > 0)
RetryAnswers(batch) ==
    { NoData,
      [m \in {batch[k] : k \in 1..Min2(1, Len(batch))} |->
          PriceEntry(PriceString(0, 0), "high")] }

\* SpecLookupLive: one call of GetTokenPrices in which every request is answered
\* or fails and every sleep ends
NextLookupLive ==
    \/ \E l \in LookupLists : LookupStart(l)
    \/ LookupBatch
    \/ LookupRequestFails
    \/ \E d \in RetryAnswers(Batch(lkMints, lkI)) : LookupRequestAnswers(d)
    \/ LookupBackoffOver
    \/ LookupPauseOver

SpecLookupLive == Init /\ [][NextLookupLive]_vars /\ WF_vars(NextLookupLive)

\* the list lengths around the batch size: one mint, one less than a batch, a full
\* batch, one more, and MaxBatches full batches
BatchLists ==
    {MintList(n) : n \in {1, batchSize - 1, batchSize, batchSize + 1, MaxBatches * batchSize}}

\* SpecBatch: one call of GetTokenPrices over a list of any of these lengths
NextBatch ==
    \/ \E l \in BatchLists : LookupStart(l)
    \/ LookupBatch
    \/ LookupRequestFails
    \/ \E d \in RetryAnswers(Batch(lkMints, lkI)) : LookupRequestAnswers(d)
    \/ LookupBackoffOver
    \/ LookupPauseOver

SpecBatch == Init /\ [][NextBatch]_vars

\* SpecCancel: a wallet fetch and a price lookup under a caller whose context
\* may be cancelled at any moment
NextCancel ==
    \/ CancelParent
    \/ FetchStep
    \/ LookupStep

SpecCancel == Init /\ [][NextCancel]_vars

\* SpecWallets: one call of FetchMultipleWalletsTokens over 1..MaxWallets wallets,
\* in which every wallet fetch may fail and the caller may cancel at any moment
NextWallets ==
    \/ \E n \in 1..MaxWallets : MultiStart(WalletList(n))
    \/ MultiAdmit
    \/ MultiAdmitCancelled
    \/ \E w \in 1..MaxWallets : WorkerWakes(w)
    \/ \E w \in 1..MaxWallets : \E o \in PlainOutcomes : WorkerFetched(w, o)
    \/ \E w \in 1..MaxWallets : WorkerExit(w)
    \/ MultiCollect
    \/ MultiCollectCancelled
    \/ CancelParent

SpecWallets == Init /\ [][NextWallets]_vars

\* SpecValue: the acquisition of two wallets from their source data, uncancelled,
\* followed by the valuation of the returned holdings
NextValue ==
    \/ MultiStart(WalletList(2))
    \/ MultiAdmit
    \/ \E w \in 1..2 : WorkerWakes(w)
    \/ \E w \in 1..2 : \E o \in MergedOutcomes : WorkerFetched(w, o)
    \/ \E w \in 1..2 : WorkerExit(w)
    \/ MultiCollect
    \/ ValueWallets(SteadyQuotes)

SpecValue == Init /\ [][NextValue]_vars


\* the wallets valued and what the price lookup returns for them: one wallet of X
\* and Y, both quoted, or X quoted higher and Y with low confidence; two wallets
\* that share X, one holding nothing of Y and one holding Z that the oracle does
\* not quote, or with no quote at all; one wallet of MaxMints mints of amounts
\* 1, 2, ..., all quoted
ValuationInputs ==
    LET one == << <<Holding("X", "XS", 20), Holding("Y", "YS", 1)>> >>
        two == << <<Holding("X", "XS", 10), Holding("Z", "ZS", 4)>>,
                  <<Holding("X", "XS", 10), Holding("Y", "YS", 0)>> >>
        many == << [k \in 1..MaxMints |-> Holding(ToString(k), "S", k)] >>
        steady == [m \in {"X", "Y"} |-> Quote(100, "high")]
        moved == [m \in {"X", "Y"} |->
                    IF m = "X" THEN Quote(105, "medium") ELSE Quote(100, "low")]
    IN { [lists |-> one, quotes |-> steady],
         [lists |-> one, quotes |-> moved],
         [lists |-> two, quotes |-> steady],
         [lists |-> two, quotes |-> moved],
         [lists |-> two, quotes |-> [m \in {} |-> Quote(0, "")]],
         [lists |-> many, quotes |-> [m \in {ToString(k) : k \in 1..MaxMints} |->
                                        Quote(3, "high")]] }

\* SpecPrice: calls of UpdateTokenPrices one after the other, with and without a
\* monitor, at the same instant or later
NextPrice ==
    \/ \E in \in ValuationInputs, withMonitor \in BOOLEAN :
          Valuate(in.lists, in.quotes, withMonitor)
    \/ Elapse(5)

SpecPrice == Init /\ [][NextPrice]_vars

\* the wallet valued after a lookup against an arbitrary oracle
QuoteHoldings == << <<Holding("X", "XS", 2), Holding("Y", "YS", 3), Holding("Z", "ZS", 1)>> >>

\* the entries the oracle may send for a mint: prices of 100 USD with every kind of
\* confidence level, 7 USD, zero, a negative price, 1e-10 USD, 2e12 USD, and a
\* price string that does not parse
QuoteEntries ==
    { PriceEntry(PriceString(100, 0), "high"),
      PriceEntry(PriceString(100, 0), "low"),
      PriceEntry(PriceString(100, 0), "unknown"),
      PriceEntry(PriceString(100, 0), ""),
      PriceEntry(PriceString(7, 0), "medium"),
      PriceEntry(PriceString(0, 0), "high"),
      PriceEntry(PriceString(-5, 0), "high"),
      PriceEntry(PriceString(1, -10), "high"),
      PriceEntry(PriceString(2, 12), "high"),
      PriceEntry(BadPriceString, "high") }

\* the answers of the oracle to a request for X, Y and Z: entries for none, for X,
\* or for X and Y
QuoteAnswers ==
    {[m \in D |-> f[m]] : D \in {{}, {"X"}, {"X", "Y"}}, f \in [{"X", "Y"} -> QuoteEntries]}

\* the lookup of UpdateTokenPrices has returned: the wallet is valued
ValueQuoted == pcLookup = "done" /\ Valuate(QuoteHoldings, lkOut.prices, TRUE)

\* SpecQuote: UpdateTokenPrices over one wallet, its price lookup run against an
\* arbitrary oracle
NextQuote ==
    \/ LookupStart(<<"X", "Y", "Z">>)
    \/ LookupBatch
    \/ LookupRequestFails
    \/ \E d \in QuoteAnswers : LookupRequestAnswers(d)
    \/ LookupBackoffOver
    \/ LookupPauseOver
    \/ ValueQuoted

SpecQuote == Init /\ [][NextQuote]_vars

\* SpecHeap: ticks and balance refreshes over the objects the monitor, its
\* snapshots and the observer share
NextHeap ==
    \/ \E quotes \in OracleAnswers : HeapTick(quotes)
    \/ \E lists \in FetchResults, quotes \in SteadyAnswers : HeapRefresh(lists, quotes)

SpecHeap == Init /\ [][NextHeap]_vars

\* the answers of the oracle to the ticks of SpecTrack: every tracked mint quoted,
\* one of them at low confidence, only the mints of even number, nothing
TrackQuotes ==
    LET known == {"X", "Y", "Z"} \cup {ToString(k) : k \in 1..MaxMints}
    IN { [m \in known |-> Quote(3, "high")],
         [m \in known |-> IF m = "Y" THEN Quote(3, "low") ELSE Quote(4, "high")],
         [m \in {"X"} \cup {ToString(2 * k) : k \in 1..(MaxMints \div 2)} |-> Quote(3, "medium")],
         [m \in {} |-> Quote(0, "")] }

\* updateData of main: the wallets fetched are valued and become the tracked list
TrackRefresh(lists, quotes) == Valuate(lists, quotes, TRUE)

\* takeSnapshot: tokenMap["default"] = m.tokens; UpdateTokenPrices(tokenMap, m)
TrackTick(quotes) == Valuate(<<upMonitor.tokens>>, quotes, TRUE)

\* SpecTrack: the tracked list of the monitor under balance refreshes and ticks
NextTrack ==
    \/ \E in \in ValuationInputs : TrackRefresh(in.lists, in.quotes)
    \/ \E quotes \in TrackQuotes : TrackTick(quotes)
    \/ Elapse(5)

SpecTrack == Init /\ [][NextTrack]_vars

\* the worker of the only wallet is inside its call of FetchWalletTokens
WorkerInFetch == mwWorker = <<"fetch">>

\* a step of the call of FetchWalletTokens the worker has made
WorkerFetchStep == WorkerInFetch /\ FetchStep

\* the call has returned: the worker sends its result
WorkerFetchReturns ==
    /\ pcFetch = "returned"
    /\ WorkerFetched(1, [tokens |-> fetchOut.tokens, err |-> fetchOut.err, src |-> NoSource])

\* SpecOneWallet: FetchMultipleWalletsTokens over one wallet, whose worker runs
\* FetchWalletTokens with its two sources and sends what it returns
NextOneWallet ==
    \/ MultiStart(WalletList(1))
    \/ MultiAdmit
    \/ WorkerWakes(1)
    \/ WorkerFetchStep
    \/ WorkerFetchReturns
    \/ WorkerExit(1)
    \/ MultiCollect

SpecOneWallet == Init /\ [][NextOneWallet]_vars

\* SpecTicker: the loop of Start(), the runtime ticker, which fires whatever the
\* loop is doing, and Stop(), against a steady oracle
NextTicker ==
    \/ TickerFire(refreshPeriod, MaxFires)
    \/ TickBegin
    \/ \E q \in SteadyAnswers : TickFinish(q)
    \/ LoopObserveCancel
    \/ Stop

SpecTicker == Init /\ [][NextTicker]_vars

\* SpecStop: the monitor against a moving oracle, stopped at any moment
NextStop ==
    \/ \E dt \in Dts : TickerFireIdle(dt, MaxFires)
    \/ TickBegin
    \/ \E q \in OracleAnswers : TickFinish(q)
    \/ Stop
    \/ LoopObserveCancel

SpecStop == Init /\ [][NextStop]_vars

\* SpecCache: goroutines calling Get and Set of the metadata cache as time passes
NextCache ==
    \/ CacheClock
    \/ \E p \in CacheProcs, mint \in CacheMints : CacheGetRLock(p, mint)
    \/ \E p \in CacheProcs : CacheGetReturn(p)
    \/ \E p \in CacheProcs, mint \in CacheMints : CacheSetLock(p, mint)
    \/ \E p \in CacheProcs : CacheSetStamp(p)
    \/ \E p \in CacheProcs : CacheSetStore(p)

SpecCache == Init /\ [][NextCache]_vars

(* ------------------------------- claims -------------------------------- *)
\* C1: the history never holds more than 300 snapshots, and it holds exactly the
\* min(n, 300) most recently inserted ones of the n inserted so far, in insertion
\* order along the ring: the element k steps behind the monitor's pointer holds
\* the k-th most recent snapshot (so an insert past capacity overwrote the oldest).
C1_RingHoldsLatest ==
    /\ DOMAIN ring \subseteq 0..(ringLen - 1)
    /\ Cardinality(DOMAIN ring) = Min2(Len(inserted), 300)
    /\ \A e \in DOMAIN ring :
         /\ RingOffset(e, priceHistory) < Len(inserted)
         /\ ring[e] = inserted[Len(inserted) - RingOffset(e, priceHistory)]
\* more than 300 snapshots were inserted
C1_Witness == Len(inserted) > 300 /\ Cardinality(DOMAIN ring) = 300

\* C2: the alerts of one detection cycle hold no two alerts of the same mint,
\* kind and window.
C2_OneAlertPerCombination ==
    \A i, j \in 1..Len(cycle.alerts) :
        (i /= j) =>
            ~(/\ cycle.alerts[i].mint = cycle.alerts[j].mint
              /\ cycle.alerts[i].kind = cycle.alerts[j].kind
              /\ cycle.alerts[i].window = cycle.alerts[j].window)
\* a cycle alerted for one mint and kind in two different windows
C2_Witness ==
    \E i, j \in 1..Len(cycle.alerts) :
        /\ cycle.alerts[i].mint = cycle.alerts[j].mint
        /\ cycle.alerts[i].kind = cycle.alerts[j].kind
        /\ cycle.alerts[i].window /= cycle.alerts[j].window

AlertCount(kind, mint, window) ==
    Cardinality({i \in 1..Len(cycle.alerts) :
                    /\ cycle.alerts[i].kind = kind
                    /\ cycle.alerts[i].mint = mint
                    /\ cycle.alerts[i].window = window})

\* the snapshot the last cycle compared mint m against for window w, if it held m
\* with a positive value
Comparable(m, w) ==
    LET old == FindSnapshot(ring, priceHistory, cycle.snapshot.Timestamp, w)
    IN /\ ~IsNil(old)
       /\ m \in DOMAIN old.TokenData
       /\ old.TokenData[m].Value > 0

C4_AlertOnlyInWindow ==
    \A i \in 1..Len(cycle.alerts) :
        LET a == cycle.alerts[i]
            cur == cycle.snapshot
        IN /\ a.mint \in DOMAIN cur.TokenData
           /\ cur.TokenData[a.mint].Value > 0
           /\ \E e \in DOMAIN ring :
                /\ e /= priceHistory
                /\ ring[e].Timestamp = a.oldTs
                /\ cur.Timestamp - ring[e].Timestamp >= a.window
                /\ cur.Timestamp - ring[e].Timestamp <= a.window + 5
                /\ a.mint \in DOMAIN ring[e].TokenData
                /\ ring[e].TokenData[a.mint].Value > 0
                /\ a.before = (IF a.kind = "price" THEN ring[e].TokenData[a.mint].Price
                               ELSE ring[e].TokenData[a.mint].Value)
\* an alert against a snapshot at the far edge of its window (age = window + 5s),
\* in a cycle whose history also held a younger snapshot
C4_Witness ==
    /\ \E i \in 1..Len(cycle.alerts) :
         cycle.snapshot.Timestamp - cycle.alerts[i].oldTs = cycle.alerts[i].window + 5
    /\ Cardinality(DOMAIN ring) >= 3

\* C5: a tick that valued at least one holding appends exactly one snapshot (the
\* pointer moves one element on and that element receives the tick's snapshot, no
\* other element changes); a tick that valued none leaves ring and pointer as they were.
C5_OneSnapshotPerValidTick ==
    [][(pcLoop = "lookup" /\ pcLoop' = "select") =>
         IF tokens' /= <<>>
         THEN /\ priceHistory' = (priceHistory + 1) % 300
              /\ inserted' = Append(inserted, cycle'.snapshot)
              /\ RingValue(ring', priceHistory') = cycle'.snapshot
              /\ MintsOf(tokens') = DOMAIN cycle'.snapshot.TokenData
              /\ \A e \in 0..299 : e /= priceHistory' =>
                    RingValue(ring', e) = RingValue(ring, e)
         ELSE /\ ring' = ring
              /\ priceHistory' = priceHistory
              /\ inserted' = inserted]_vars
\* a tick that valued nothing has run after a tick that inserted a snapshot
C5_Witness ==
    /\ cycle.snapshot.Timestamp >= 0
    /\ DOMAIN cycle.snapshot.TokenData = {}
    /\ inserted /= <<>>

\* C6: when the loop takes the ctx.Done() branch it stops the ticker, and from
\* then on no call of takeSnapshot begins.
C6_NoTickAfterCancelObserved ==
    [][/\ cancelObserved' => tickerStopped'
       /\ cancelObserved => (ticksBegun' = ticksBegun /\ pcLoop' /= "lookup")]_vars
\* the loop observed the cancellation while a tick was still waiting in ticker.C
C6_Witness == cancelObserved /\ tickerC /\ ticksBegun > 0

\* C7 (as claimed): once the caller's context is cancelled, an in-flight price
\* batch request does not come back with an answer, a retry loop in backoff does
\* not go on to its next attempt, and an in-flight balance fetch of either source
\* does not come back with an answer.
C7_CancelStopsOperations ==
    [][parentDone =>
         /\ ~(pcLookup = "request" /\ pcLookup' /= "request" /\ lkLast' = "ok")
         /\ ~(pcLookup = "backoff" /\ pcLookup' = "request")
         /\ ~(pcRpc = "fetching" /\ pcRpc' = "send" /\ rpcMsg' /= <<>>)
         /\ ~(pcDas = "fetching" /\ pcDas' = "send" /\ ~dasMsg'.err)]_vars

\* C8 (as claimed): both fetcher goroutines terminate; in particular none is left
\* at its send on the unbuffered rpcChan / dasChan once FetchWalletTokens, the only
\* receiver, has returned (from where it can never move again).
C8_FetchersTerminate ==
    pcFetch = "returned" => (pcRpc /= "send" /\ pcDas /= "send")

\* C9 (as claimed): m.tokens and m.lastUpdateTime are written only by a step of
\* the monitor's own tick, and while a tick is in progress the refresh task takes
\* no step that reads or writes them.
C9_LoopOwnsMonitorState ==
    [][/\ (tokens' /= tokens \/ lastUpdateTime' /= lastUpdateTime) =>
             (pcLoop = "lookup" /\ pcLoop' = "select")
       /\ pcLoop = "lookup" =>
             ~(pcRefresh \in {"fetch", "lookup", "update"}
               /\ pcRefresh' \in {"lookup", "update", "wait"}
               /\ pcRefresh' /= pcRefresh
               /\ rf' /= rf)]_vars

\* C10 (as claimed): a tick that begins after a refresh has completed values the
\* refreshed set: the first such tick reads exactly the refreshed list, and every
\* later one tracks no mint outside it.
C10_TicksValueRefreshedSet ==
    (pcLoop = "lookup" /\ refreshed.done /\ refreshed.ticksSince >= 1 /\ pcRefresh = "wait") =>
        /\ MintsOf(tk.tokens) \subseteq MintsOf(refreshed.tokens)
        /\ refreshed.ticksSince = 1 => tk.tokens = refreshed.tokens

\* C11 (as claimed): a tick of a monitor with tracked holdings whose lookup obtained
\* zero quotes prints no status line and emits no alert, and the loop stays alive
\* to serve the next tick.
C11_ZeroQuoteTickFails ==
    [][(pcLoop = "lookup" /\ pcLoop' = "select" /\ tk.tokens /= <<>>
            /\ cycle'.quotes = 0) =>
         /\ cycle'.status = <<>>
         /\ cycle'.alerts = <<>>
         /\ alertLog' = alertLog]_vars

\* C12 (as claimed): a lookup over a non-empty mint list returns an error if and
\* only if it obtained no quote at all, and otherwise returns the quotes it stored.
C12_FailsIffZeroQuotes ==
    (pcLookup = "done" /\ lkMints /= <<>>) =>
        /\ (lkOut.err /= "nil") <=> (DOMAIN lkPrices = {})
        /\ lkOut.err = "nil" => lkOut.prices = lkPrices

\* the lookup has gone through every batch of its list
AllBatchesRun ==
    /\ Len(lkBatches) * batchSize >= Len(lkMints)
    /\ \A k \in 1..Len(lkBatches) : lkBatches[k].start = (k - 1) * batchSize

\* C13: a batch whose every attempt failed contributes no quote and the lookup goes
\* on: a finished lookup has run every batch of its list, returns no error, and
\* returns the quotes stored by every batch, those before a failed batch included.
C13_FailedBatchDoesNotRaise ==
    /\ \A k \in 1..Len(lkBatches) :
         lkBatches[k].errors = lkBatches[k].attempts => lkBatches[k].quotes = {}
    /\ pcLookup = "done" =>
         /\ lkOut.err = "nil"
         /\ AllBatchesRun
         /\ \A k \in 1..Len(lkBatches) : lkBatches[k].quotes \subseteq DOMAIN lkOut.prices
         /\ \A m \in DOMAIN lkOut.prices : \E k \in 1..Len(lkBatches) : m \in lkBatches[k].quotes
\* a finished lookup whose second batch failed five times after the first batch
\* had stored quotes
C13_Witness ==
    /\ pcLookup = "done"
    /\ Len(lkBatches) >= 2
    /\ lkBatches[1].quotes /= {}
    /\ lkBatches[2].errors = maxRetries
    /\ DOMAIN lkOut.prices = lkBatches[1].quotes

\* C14: no batch is requested more than 5 times, no attempt follows one whose
\* response returned results, and every lookup that was started returns.
C14_BoundedRetries ==
    /\ [](\A k \in 1..Len(lkBatches) :
            /\ lkBatches[k].attempts <= 5
            /\ lkBatches[k].afterResults = 0
            /\ lkBatches[k].results <= 1)
    /\ [](pcLookup = "request" => lkRetry < 5)
    /\ (pcLookup /= "idle") ~> (pcLookup = "done")
\* a finished lookup one batch of which was attempted five times, and another of
\* which stopped at its third attempt on a response whose only quote was rejected
C14_Witness ==
    /\ pcLookup = "done"
    /\ \E k \in 1..Len(lkBatches) : lkBatches[k].attempts = 5 /\ lkBatches[k].results = 0
    /\ \E k \in 1..Len(lkBatches) :
         /\ lkBatches[k].attempts = 3
         /\ lkBatches[k].results = 1
         /\ lkBatches[k].quotes = {}

\* the sources a returned FetchWalletTokens merged: the raw accounts it received
\* and the indexed holdings and native balance it used (none after a DAS error or
\* timeout)
DasUsed == IF pcDas = "done" /\ ~dasMsg.err THEN dasMsg.tokens ELSE <<>>
NativeUsed == IF pcDas = "done" /\ ~dasMsg.err THEN dasMsg.balance ELSE 0
\* mergedTokens before the native entry was appended
MergedOut ==
    IF NativeUsed > 0 THEN SubSeq(fetchOut.tokens, 1, Len(fetchOut.tokens) - 1)
    ELSE fetchOut.tokens

\* C15: the merge of a wallet holds the mints of either source and no other; an
\* entry of a mint the indexed source reports is a record of the indexed source
\* for that mint; an entry of any other mint carries the amount of a raw account of
\* that mint divided by 10^decimals (the raw amount itself when decimals is 0),
\* symbol "UNKNOWN" and name "Unknown Token".
C15_MergePrefersIndexed ==
    (pcFetch = "returned" /\ fetchOut.err = "nil") =>
        /\ MintsOf(MergedOut) =
              {rpcTokens[i].Mint : i \in 1..Len(rpcTokens)} \cup MintsOf(DasUsed)
        /\ \A k \in 1..Len(MergedOut) :
             IF MergedOut[k].MintAddr \in MintsOf(DasUsed)
             THEN \E j \in 1..Len(DasUsed) : MergedOut[k] = DasUsed[j]
             ELSE /\ MergedOut[k].Symbol = "UNKNOWN"
                  /\ MergedOut[k].Name = "Unknown Token"
                  /\ \E i \in 1..Len(rpcTokens) :
                       /\ rpcTokens[i].Mint = MergedOut[k].MintAddr
                       /\ IF rpcTokens[i].Decimals = 0
                          THEN MergedOut[k].Amount = rpcTokens[i].Balance
                          ELSE MergedOut[k].Amount * Pow10(rpcTokens[i].Decimals)
                                  = rpcTokens[i].Balance
\* a merge of a mint both sources report with different amounts and of a mint
\* only the raw source reports with decimals 0
C15_Witness ==
    /\ pcFetch = "returned" /\ fetchOut.err = "nil"
    /\ \E i \in 1..Len(rpcTokens) : \E j \in 1..Len(DasUsed) :
         /\ rpcTokens[i].Mint = DasUsed[j].MintAddr
         /\ rpcTokens[i].Balance \div Pow10(rpcTokens[i].Decimals) /= DasUsed[j].Amount
    /\ \E i \in 1..Len(rpcTokens) :
         rpcTokens[i].Decimals = 0 /\ rpcTokens[i].Mint \notin MintsOf(DasUsed)

\* C16 (as claimed): the holdings FetchWalletTokens returns have pairwise distinct
\* mint addresses.
C16_MergedMintsDistinct ==
    (pcFetch = "returned" /\ fetchOut.err = "nil") =>
        \A i, j \in 1..Len(fetchOut.tokens) :
            i /= j => fetchOut.tokens[i].MintAddr /= fetchOut.tokens[j].MintAddr


\* how the two sources of a FetchWalletTokens call ended: a source failed if it
\* returned an error or its request was still under way when the context of the
\* call was done (the request then fails with the context's error)
RpcOk == pcRpc \in {"send", "done"} /\ rpcMsg /= <<>>
RpcFailed == \/ pcRpc \in {"send", "done"} /\ rpcMsg = <<>>
             \/ pcRpc = "fetching" /\ FetchDone
DasOk == pcDas \in {"send", "done"} /\ ~dasMsg.err
DasFailed == \/ pcDas \in {"send", "done"} /\ dasMsg.err
             \/ pcDas = "fetching" /\ FetchDone

\* C19 (as claimed): a FetchWalletTokens call one source of which failed while the
\* other delivered returns without error the merge of the other source's data.
C19_OneSourceSuffices ==
    pcFetch = "returned" =>
        /\ (RpcFailed /\ DasOk) =>
              /\ fetchOut.err = "nil"
              /\ fetchOut.tokens \in {WithNative(m, dasMsg.balance) :
                                        m \in mergeTokenData(<<>>, dasMsg.tokens)}
        /\ (RpcOk /\ DasFailed) =>
              /\ fetchOut.err = "nil"
              /\ fetchOut.tokens \in mergeTokenData(rpcMsg, <<>>)



\* the balance of a mint in a wallet by the merge rule: the indexed source's amount
\* when it reports the mint, else the descaled raw amounts of the mint's accounts
WalletBalance(src, mint) ==
    IF mint \in MintsOf(src.das) THEN dasTokenMap(src.das)[mint].Amount
    ELSE SumSeq([i \in 1..Len(src.rpc) |->
                    IF src.rpc[i].Mint = mint
                    THEN src.rpc[i].Balance \div Pow10(src.rpc[i].Decimals) ELSE 0])

\* the wallets whose holdings FetchMultipleWalletsTokens returned
ReturnedWallets == {w \in 1..Len(mwAddrs) : mwAddrs[w] \in DOMAIN mwOut.results}

\* C17 (as claimed): the valuation holds each mint at most once, with the sum over
\* the returned wallets of the wallet's balance of the mint as its amount, and
\* amount * price as its value.
C17_AmountsSummedPerMint ==
    mwValued.done =>
        /\ \A i, j \in 1..Len(mwValued.tokens) :
             i /= j => mwValued.tokens[i].MintAddr /= mwValued.tokens[j].MintAddr
        /\ \A i \in 1..Len(mwValued.tokens) :
             /\ mwValued.tokens[i].Amount =
                   SumSeq([w \in 1..Len(mwAddrs) |->
                              IF w \in ReturnedWallets
                              THEN WalletBalance(mwSrc[w], mwValued.tokens[i].MintAddr)
                              ELSE 0])
             /\ mwValued.tokens[i].Value =
                   mwValued.tokens[i].Amount * mwValued.tokens[i].Price

\* the wallets whose worker received holdings from FetchWalletTokens
Succeeded == {w \in 1..Len(mwAddrs) : mwSrc[w].err = "nil"}

\* C18: a call that returns without having been cut short by its context returns,
\* when some wallet succeeded, no error and the holdings of exactly the wallets
\* that succeeded, and returns an error exactly when every wallet failed.
C18_PartialFailureTolerated ==
    (pcMulti = "returned" /\ mwOut.err /= "ctx" /\ mwAddrs /= <<>>) =>
        /\ \A w \in 1..Len(mwAddrs) : mwSrc[w].err /= "none"
        /\ (mwOut.err /= "nil") <=> (Succeeded = {})
        /\ Succeeded /= {} =>
              /\ DOMAIN mwOut.results = {mwAddrs[w] : w \in Succeeded}
              /\ \A a \in DOMAIN mwOut.results :
                    mwOut.results[a] = <<NamedHolding("X", "XS", "X Coin", 12)>>
\* an uncancelled call over three wallets returned the holdings of one of them
C18_Witness ==
    /\ pcMulti = "returned" /\ mwOut.err = "nil" /\ ~parentDone
    /\ Len(mwAddrs) = 3
    /\ Cardinality(DOMAIN mwOut.results) = 1

\* the wallet fetches in progress: goroutines started and not yet finished
InProgress == {w \in 1..Len(mwWorker) : mwWorker[w] \in {"sleep", "fetch", "release"}}

\* C20: at most 2 wallet fetches are in progress at any moment.
C20_AtMostTwoFetches == Cardinality(InProgress) <= 2
\* two fetches are in progress, a third wallet waits for admission, none is done
C20_Witness ==
    /\ Cardinality(InProgress) = 2
    /\ Len(mwAddrs) >= 3
    /\ pcMulti = "admit"
    /\ \A w \in 1..Len(mwWorker) : mwWorker[w] /= "done"

RECURSIVE RequestedMints(_)
\* the mint identifiers of the requests of the batches, in the order of the batches
RequestedMints(batches) ==
    IF batches = <<>> THEN <<>> ELSE Head(batches).mints \o RequestedMints(Tail(batches))

\* C29: the batches of a lookup are consecutive pieces of the mint list of at most
\* 100 mints each, none empty, and together they are the list: once the lookup has
\* returned, every input mint was requested in exactly one batch.
C29_BatchesPartitionList ==
    /\ \A k \in 1..Len(lkBatches) :
         /\ Len(lkBatches[k].mints) <= 100
         /\ Len(lkBatches[k].mints) >= 1
    /\ \E n \in 0..Len(lkMints) : RequestedMints(lkBatches) = SubSeq(lkMints, 1, n)
    /\ (pcLookup = "done" /\ lkOut.err = "nil") => RequestedMints(lkBatches) = lkMints
\* a finished lookup over a list of an exact multiple of 100 mints, at least 200
C29_Witness ==
    /\ pcLookup = "done"
    /\ Len(lkMints) >= 200
    /\ Len(lkMints) % 100 = 0
    /\ Len(lkBatches) * 100 = Len(lkMints)
    /\ \A k \in 1..Len(lkBatches) : Len(lkBatches[k].mints) = 100

\* C27 (as claimed): two alerts of the same mint, kind and window W are never
\* written less than W seconds apart.
C27_OneAlertPerWindowPeriod ==
    \A i, j \in 1..Len(alertLog) :
        (/\ i < j
         /\ alertLog[i].alert.mint = alertLog[j].alert.mint
         /\ alertLog[i].alert.kind = alertLog[j].alert.kind
         /\ alertLog[i].alert.window = alertLog[j].alert.window)
        => alertLog[j].at - alertLog[i].at >= alertLog[i].alert.window

\* the steps of the last tick that are among `names`, in the order performed
StepsAmong(names) == SelectSeq(cycle.steps, LAMBDA x : x \in names)

\* C28 (as claimed): a tick whose snapshot holds a token performs, once each and in
\* this order, the price refresh, the revaluation, the insertion of the snapshot,
\* the alert check, the observer callback and the append to the CSV sink, and only
\* then is the loop idle again.
C28_TickStepOrder ==
    (pcLoop = "select" /\ DOMAIN cycle.snapshot.TokenData /= {}) =>
        StepsAmong({"prices", "revalue", "snapshot", "alerts", "observer", "csv"})
            = <<"prices", "revalue", "snapshot", "alerts", "observer", "csv">>

\* the amount of a mint summed over every entry of every wallet list
AggregatedAmount(lists, mint) ==
    SumSeq([i \in 1..Len(Flatten(lists)) |->
               IF Flatten(lists)[i].MintAddr = mint THEN Flatten(lists)[i].Amount ELSE 0])

\* C21: validTokens before the cut holds one holding for exactly the mints of the
\* wallets that have a quote of positive price and of a confidence level other
\* than "low"; its amount is the aggregated amount, its price and confidence level
\* are the quote's and its value is amount x price.  A mint without a quote is
\* absent.
C21_ValuedIffQuoted ==
    upOut.done =>
        LET held == MintsOf(Flatten(upOut.lists))
            quoted == {m \in held : /\ m \in DOMAIN upOut.quotes
                                    /\ upOut.quotes[m].Price > 0
                                    /\ upOut.quotes[m].ConfidenceLevel /= "low"}
        IN /\ MintsOf(upOut.valid) = quoted
           /\ Len(upOut.valid) = Cardinality(quoted)
           /\ \A i \in 1..Len(upOut.valid) :
                LET h == upOut.valid[i]
                    q == upOut.quotes[h.MintAddr]
                IN /\ h.Amount = AggregatedAmount(upOut.lists, h.MintAddr)
                   /\ h.Price = q.Price
                   /\ h.Value = AggregatedAmount(upOut.lists, h.MintAddr) * q.Price
                   /\ h.ConfidenceLevel = q.ConfidenceLevel
\* two wallets valued of which Z has no quote and Y a quote of low confidence: the
\* output is X alone, 20 of it at 105
C21_Witness ==
    /\ upOut.done
    /\ Len(upOut.lists) = 2
    /\ "Z" \in MintsOf(Flatten(upOut.lists)) /\ "Z" \notin DOMAIN upOut.quotes
    /\ "Y" \in DOMAIN upOut.quotes /\ upOut.quotes["Y"].ConfidenceLevel = "low"
    /\ Len(upOut.valid) = 1
    /\ upOut.valid[1].MintAddr = "X" /\ upOut.valid[1].Value = 2100

\* the entry of a mint in the response the lookup stored quotes from
EntriesOf(mint) ==
    {lkBatches[k].data[mint] : k \in {b \in 1..Len(lkBatches) : mint \in DOMAIN lkBatches[b].data}}

\* the price string parses to a price within [1e-9, 1e12]
InRange(price) ==
    /\ price.ok
    /\ ~FloatLess(price.val, Float(1, -9))
    /\ ~FloatLess(Float(1, 12), price.val)

\* C22: whatever the oracle sent, every holding UpdateTokenPrices returns has a
\* confidence level other than "low" and the price the oracle sent for its mint,
\* which is not below 1e-9 and not above 1e12.
C22_NoOutOfRangeOrLowQuote ==
    upOut.done =>
        \A i \in 1..Len(upOut.returned) :
            LET h == upOut.returned[i]
            IN /\ h.ConfidenceLevel /= "low"
               /\ h.Price >= 1
               /\ EntriesOf(h.MintAddr) /= {}
               /\ \A e \in EntriesOf(h.MintAddr) :
                    /\ InRange(e.Price)
                    /\ e.Price.val.mant * Pow10(e.Price.val.exp) = h.Price
                    /\ e.ConfidenceLevel = h.ConfidenceLevel
\* the oracle sent 2e12 USD for X and a quote of low confidence for Y, or 1e-10 USD
\* for X and an acceptable quote for Y
C22_Witness ==
    /\ upOut.done
    /\ \/ /\ EntriesOf("X") = {PriceEntry(PriceString(2, 12), "high")}
          /\ EntriesOf("Y") = {PriceEntry(PriceString(100, 0), "low")}
          /\ upOut.returned = <<>>
       \/ /\ EntriesOf("X") = {PriceEntry(PriceString(1, -10), "high")}
          /\ EntriesOf("Y") = {PriceEntry(PriceString(7, 0), "medium")}
          /\ MintsOf(upOut.returned) = {"Y"}

C24_TopFiftyByValue ==
    upOut.done =>
        LET out == upOut.returned
            all == {upOut.valid[i] : i \in 1..Len(upOut.valid)}
            kept == {out[i] : i \in 1..Len(out)}
        IN /\ Len(out) <= 50
           /\ \A i, j \in 1..Len(out) : i < j => out[i].Value >= out[j].Value
           /\ kept \subseteq all
           /\ Cardinality(kept) = Len(out)
           /\ Len(upOut.valid) <= 50 => kept = all
           /\ Len(upOut.valid) > 50 =>
                /\ Len(out) = 50
                /\ \A h \in all \ kept : \A r \in kept : h.Value <= r.Value
\* more than 50 holdings of distinct values were valued
C24_Witness ==
    /\ upOut.done
    /\ Len(upOut.valid) > 50
    /\ Len(upOut.returned) = 50
    /\ \A i, j \in 1..Len(upOut.valid) : i < j => upOut.valid[i].Value > upOut.valid[j].Value

\* C25: a valuation made no later than the monitor's previous one leaves the change
\* rate of every holding at zero, and divides nothing by the elapsed time.
C25_NoRateWithoutElapsedTime ==
    (upOut.done /\ upOut.monitor /\ upOut.currentTime - upOut.lastUpdateTime <= 0) =>
        \A i \in 1..Len(upOut.valid) :
            /\ upOut.change[upOut.valid[i].MintAddr].num = 0
            /\ upOut.change[upOut.valid[i].MintAddr].den = 1
\* a second valuation of X at the instant of the first
C25_Witness ==
    /\ upOut.done /\ upOut.monitor
    /\ upOut.lastUpdateTime /= -1
    /\ upOut.currentTime = upOut.lastUpdateTime
    /\ \E i \in 1..Len(upOut.valid) :
         /\ upOut.valid[i].MintAddr \in DOMAIN upOut.lastValues
         /\ upOut.valid[i].Value /= upOut.lastValues[upOut.valid[i].MintAddr]

\* C26: the monitor holds the list and the time of the last valuation made with it,
\* and a valuation made with the monitor gives every holding whose mint is in that
\* list the change rate ((value - previous value) / previous value x 100) / seconds
\* elapsed since that time, when seconds elapsed is positive; every other holding,
\* and every holding of a valuation without a monitor, has change rate 0.
C26_RateAgainstPreviousValuation ==
    /\ []((upOut.done /\ upOut.monitor) =>
            /\ upMonitor.tokens = upOut.returned
            /\ upMonitor.lastUpdateTime = upOut.currentTime)
    /\ [][upCalls' = upCalls + 1 =>
            \A i \in 1..Len(upOut'.valid) :
                LET h == upOut'.valid[i]
                    prev == {upMonitor.tokens[j].Value :
                                j \in {k \in 1..Len(upMonitor.tokens) :
                                          upMonitor.tokens[k].MintAddr = h.MintAddr}}
                    elapsed == upNow - upMonitor.lastUpdateTime
                IN IF /\ upOut'.monitor
                      /\ prev /= {}
                      /\ upMonitor.lastUpdateTime /= -1
                      /\ elapsed > 0
                   THEN \A v \in prev :
                          /\ upOut'.change[h.MintAddr].num = (h.Value - v) * 100
                          /\ upOut'.change[h.MintAddr].den = v * elapsed
                   ELSE upOut'.change[h.MintAddr] = Rate(0, 1)]_vars
\* X valued at 2000 and, 5 seconds later, at 2100: 1 percent per second
C26_Witness ==
    /\ upOut.done /\ upOut.monitor
    /\ upOut.currentTime - upOut.lastUpdateTime = 5
    /\ "X" \in DOMAIN upOut.change
    /\ upOut.lastValues["X"] = 2000
    /\ upOut.change["X"] = Rate(10000, 10000)
RECURSIVE SumValues(_, _)
\* the total of the values of the holdings td of the mints in S
SumValues(S, td) ==
    IF S = {} THEN 0
    ELSE LET m == CHOOSE x \in S : TRUE IN td[m].Value + SumValues(S \ {m}, td)

\* C30: a snapshot inserted into the history is never changed afterwards: the
\* amount, price and value of each of its holdings stay what they were when it
\* was inserted and its total value stays their sum, whatever later ticks, balance refreshes and the report of the
\* observer callback do, although its holding objects are also the tracked list
\* of the monitor.
C30_SnapshotImmutable ==
    /\ Len(hInserted) = Len(hHistory)
    /\ \A k \in 1..Len(hHistory) :
         /\ DOMAIN hInserted[k] = DOMAIN hHistory[k].TokenData
         /\ \A m \in DOMAIN hHistory[k].TokenData :
              LET cur == heap[hHistory[k].TokenData[m]]
                  was == hInserted[k][m]
              IN /\ cur.MintAddr = m
                 /\ cur.Amount = was.Amount
                 /\ cur.Price = was.Price
                 /\ cur.Value = was.Value
         /\ hHistory[k].Value = SumValues(DOMAIN hInserted[k], hInserted[k])

\* a snapshot was inserted, then a refresh and a tick at another price ran, and the
\* holdings of the latest snapshot are the objects of the tracked list
C30_Witness ==
    /\ hLog = <<"tick", "refresh", "tick">>
    /\ Len(hHistory) = 2
    /\ "X" \in DOMAIN hInserted[1] /\ "X" \in DOMAIN hInserted[2]
    /\ hInserted[1]["X"].Price /= hInserted[2]["X"].Price
    /\ hInserted[1]["X"].Amount /= hInserted[2]["X"].Amount
    /\ \A m \in DOMAIN hHistory[2].TokenData :
         \E i \in 1..Len(hTokens) : hTokens[i] = hHistory[2].TokenData[m]

\* the goroutines inside Get or Set, between taking c.mutex and releasing it
InGet == {p \in CacheProcs : cPc[p] = "get"}
InSet == {p \in CacheProcs : cPc[p] \in {"stamp", "store"}}

\* the age in seconds, at the time t, of the entry the latest Set of mint stored
SetAge(mint, t) == CacheSeconds(t - cLastSet[mint])

\* C31: a Get returns the entry of its mint exactly when a Set has stored one and
\* the latest Set of it was at most 60 seconds before, and reports a miss for a
\* mint never stored and for an older entry; and while a Set holds the cache no
\* other Get or Set is inside it.
C31_CacheTTLAndExclusion ==
    /\ [](/\ Cardinality(InSet) <= 1
          /\ (InSet /= {} => InGet = {}))
    /\ [][\A p \in CacheProcs :
            (cPc[p] = "get" /\ cPc'[p] = "idle") =>
               /\ cRet'[p].ok <=> /\ cArg[p] \in DOMAIN cLastSet
                                  /\ SetAge(cArg[p], cNow) <= cacheTTL
               /\ cRet'[p].ok => cRet'[p].UpdatedAt = cLastSet[cArg[p]]]_vars

\* a Get has hit an entry exactly 60 seconds old and another has missed that entry
\* when it was older
C31_Witness ==
    /\ cRet[1].ok /\ CacheSeconds(cRet[1].at - cRet[1].UpdatedAt) = cacheTTL
    /\ ~cRet[2].ok /\ cRet[2].mint = cRet[1].mint
    /\ cRet[2].mint \in DOMAIN cData
    /\ cData[cRet[2].mint] = cRet[1].UpdatedAt
    /\ CacheSeconds(cRet[2].at - cData[cRet[2].mint]) > cacheTTL

\* the lines a step appends to the CSV sink
CsvAppended == SubSeq(csvSink', Len(csvSink) + 1, Len(csvSink'))

\* the lines of kind k among lines
LinesOfKind(lines, k) == SelectSeq(lines, LAMBDA l : l.kind = k)

\* C32 (as claimed): the CSV sink is append-only, every tick appends exactly one data
\* row per holding it valued, and the header line is written only into an empty
\* sink, so it is never written by a later tick.
C32_CsvRowsAndSingleHeader ==
    [][/\ Len(csvSink') >= Len(csvSink)
       /\ SubSeq(csvSink', 1, Len(csvSink)) = csvSink
       /\ (pcLoop = "lookup" /\ pcLoop' = "select") =>
            /\ Len(LinesOfKind(CsvAppended, "row")) = Len(tokens')
            /\ \A i \in 1..Len(tokens') :
                 Len(SelectSeq(CsvAppended,
                               LAMBDA l : l.kind = "row" /\ l.MintAddr = tokens'[i].MintAddr)) = 1
            /\ Len(LinesOfKind(CsvAppended, "header")) = (IF csvSink = <<>> THEN 1 ELSE 0)]_vars

\* C33: a takeSnapshot begins only when the loop is at its select, that is when the
\* previous one has returned, so at most one is in progress; and the history and
\* the alert log are written only by the step that completes the tick in progress.
C33_OneTickAtATime ==
    /\ [](pcLoop = "lookup" <=> tk /= NoLocals)
    /\ [][/\ ticksBegun' /= ticksBegun =>
              /\ ticksBegun' = ticksBegun + 1
              /\ pcLoop = "select" /\ tk = NoLocals
              /\ pcLoop' = "lookup"
          /\ (inserted' /= inserted \/ alertLog' /= alertLog \/ cycle' /= cycle) =>
              /\ pcLoop = "lookup" /\ pcLoop' = "select"
              /\ ticksBegun' = ticksBegun]_vars

\* the ticker fired again while the second tick was waiting for its prices
C33_Witness ==
    /\ pcLoop = "lookup"
    /\ ticksBegun = 2
    /\ tickerC
    /\ Len(inserted) = 1

\* the steps of a cycle record that are among names, in order
StepsOf(c, names) == SelectSeq(c.steps, LAMBDA x : x \in names)

\* C35: Stop() cancels the context and closes both files at once, whatever the loop
\* is doing, and leaves a tick in progress untouched; that tick still completes
\* with every step, the observer callback included, and each of its writes, to
\* the alert log and to the CSV file, fails, is logged and changes neither sink.
C35_StopDoesNotWaitForTick ==
    [][/\ (~ctxDone /\ ctxDone') =>
            /\ filesClosed'
            /\ pcLoop' = pcLoop /\ tk' = tk
            /\ alertLog' = alertLog /\ csvSink' = csvSink
       /\ (filesClosed /\ pcLoop = "lookup" /\ pcLoop' = "select") =>
            /\ cycle'.snapshot.Timestamp = now
            /\ StepsOf(cycle', {"alerts", "csv", "observer"}) = <<"alerts", "csv", "observer">>
            /\ FailedWrites(cycle'.alerts) = Len(cycle'.alerts) + 1
            /\ alertLog' = alertLog
            /\ csvSink' = csvSink]_vars

\* a tick that was waiting for its prices when Stop() was called has completed
\* with an alert to write, and the loop has then left through ctx.Done()
C35_Witness ==
    /\ filesClosed
    /\ Len(cycle.alerts) >= 1
    /\ \A i \in 1..Len(alertLog) : alertLog[i].at < cycle.snapshot.Timestamp
    /\ csvSink /= <<>>
    /\ \A i \in 1..Len(csvSink) : csvSink[i].at < cycle.snapshot.Timestamp
    /\ cancelObserved
    /\ pcLoop = "stopped"

\* the mints with an accepted quote in the answer quotes
AcceptedMints(quotes) == {m \in DOMAIN quotes : ~QuoteRejected(quotes[m])}

\* C34: a tick replaces the tracked list by exactly the holdings it valued: the
\* tracked mints after it are the mints tracked before it that got an accepted
\* quote, at most 50 of them, so a mint without one is dropped and stays out at
\* every later tick, and after a tick without quotes nothing is tracked.
C34_TickKeepsOnlyValuedMints ==
    [][(upCalls' = upCalls + 1 /\ upOut'.lists = <<upMonitor.tokens>>) =>
         /\ upMonitor'.tokens = upOut'.returned
         /\ MintsOf(upMonitor'.tokens)
              = MintsOf(upMonitor.tokens) \cap AcceptedMints(upOut'.quotes)
         /\ MintsOf(upMonitor'.tokens) \subseteq MintsOf(upMonitor.tokens)
         /\ Len(upMonitor'.tokens) <= topN
         /\ (DOMAIN upOut'.quotes = {} => upMonitor'.tokens = <<>>)]_vars

\* a refresh tracked 50 mints, a tick quoted only some of them and a later tick
\* that quoted every mint kept only those
C34_Witness ==
    /\ upCalls = 3
    /\ upOut.lists = <<upMonitor.tokens>>
    /\ Len(upMonitor.tokens) = MaxMints \div 2
    /\ AcceptedMints(upOut.quotes) \ MintsOf(upMonitor.tokens) /= {}

\* both sources have answered the call with an error, and both answers were received
BothSourcesFailed ==
    /\ pcRpc = "done" /\ rpcTokens = <<>>
    /\ pcDas = "done" /\ dasMsg = DasError

\* C36: FetchWalletTokens returns an error only without credentials (no source was
\* started) or when the deadline was taken before the raw result was received;
\* once the raw result is received it returns without error, and when both sources
\* answered with an error it returns no holding and no error, so that
\* FetchMultipleWalletsTokens stores the wallet with an empty list and returns
\* without error.
C36_EmptyFetchIsSuccess ==
    /\ pcFetch = "returned" =>
         /\ fetchOut.err \in {"nil", "config", "timeout"}
         /\ fetchOut.err = "config" => (pcRpc = "none" /\ pcDas = "none")
         /\ fetchOut.err = "timeout" => (pcRpc /= "done" /\ FetchDone)
         /\ pcRpc = "done" => fetchOut.err = "nil"
         /\ BothSourcesFailed => fetchOut = [tokens |-> <<>>, err |-> "nil"]
    /\ pcMulti = "returned" =>
         /\ mwOut.err = "all failed" <=> fetchOut.err /= "nil"
         /\ BothSourcesFailed =>
              /\ mwOut.err = "nil"
              /\ DOMAIN mwOut.results = {"1"}
              /\ mwOut.results["1"] = <<>>

\* both sources failed before the deadline and the call over the one wallet has
\* returned
C36_Witness ==
    /\ pcMulti = "returned"
    /\ BothSourcesFailed
    /\ mwOut.err = "nil"

\* the written elements of the ring whose snapshot has an age inside [w, w+5s] for
\* the snapshot of the last tick
Matching(w) ==
    {e \in DOMAIN ring : WindowMatch(cycle.snapshot.Timestamp - ring[e].Timestamp, w)}

\* C37: when snapshots of the history match a window, the one the alert check of the
\* tick compared against is the oldest of them, the elements never written being
\* passed over; every alert of the tick for that window refers to it.
C37_OldestMatchingSnapshot ==
    (pcLoop = "select" /\ DOMAIN cycle.snapshot.TokenData /= {}) =>
        \A k \in 1..Len(timeWindows) :
            LET w == timeWindows[k]
                old == FindSnapshot(ring, priceHistory, cycle.snapshot.Timestamp, w)
            IN /\ Matching(w) = {} <=> IsNil(old)
               /\ Matching(w) /= {} =>
                    /\ \E e \in Matching(w) : ring[e] = old
                    /\ \A e \in Matching(w) : old.Timestamp <= ring[e].Timestamp
               /\ \A i \in 1..Len(cycle.alerts) :
                    cycle.alerts[i].window = w =>
                        /\ Matching(w) /= {}
                        /\ \A e \in Matching(w) : cycle.alerts[i].oldTs <= ring[e].Timestamp

\* two snapshots of different ages match the 30s window, elements of the ring are
\* still unwritten, and the tick has raised an alert for that window
C37_Witness ==
    /\ pcLoop = "select"
    /\ Cardinality(Matching(30)) >= 2
    /\ Cardinality(DOMAIN ring) < ringLen
    /\ \E i \in 1..Len(cycle.alerts) :
         /\ cycle.alerts[i].window = 30
         /\ \E e \in Matching(30) : cycle.alerts[i].oldTs < ring[e].Timestamp
         /\ \E e \in Matching(30) :
              /\ ring[e].Timestamp > cycle.alerts[i].oldTs
              /\ cycle.alerts[i].mint \in DOMAIN ring[e].TokenData
              /\ ring[e].TokenData[cycle.alerts[i].mint].Price /= cycle.alerts[i].before

\* SpecInterval: the monitor of main, one tick every 20 seconds, every tick served
\* before the next one, the oracle quoting every mint at each tick
QuoteMoves(snaps) ==
    Cardinality({i \in 1..(Len(snaps) - 1) : snaps[i].TokenData /= snaps[i + 1].TokenData})

\* a tick of SpecInterval: the oracle answers, having changed its quotes at most
\* MaxQuoteMoves times over the run
IntervalTick(quotes) ==
    /\ TickFinish(quotes)
    /\ QuoteMoves(inserted') <= MaxQuoteMoves

NextInterval ==
    \/ TickerFireIdle(interval, MaxIntervalFires)
    \/ TickBegin
    \/ \E q \in IntervalAnswers : IntervalTick(q)

SpecInterval == Init /\ [][NextInterval]_vars

\* the snapshot the alert check of the last tick found for window w
Found(w) == FindSnapshot(ring, priceHistory, cycle.snapshot.Timestamp, w)

\* the stored history reaches back w seconds from the snapshot of the last tick
HistoryDeep(w) ==
    \E e \in DOMAIN ring : cycle.snapshot.Timestamp - ring[e].Timestamp >= w

\* C38: with one snapshot per 20s tick, a window finds a snapshot only if a multiple
\* k x 20s (1 <= k <= 299) lies in [W, W+5s]; the 30s window never finds one and
\* never alerts; the 1m and 5m windows find the snapshot exactly 60s and 300s old on
\* every tick once the history is that deep.
C38_WindowsAtDefaultInterval ==
    (pcLoop = "select" /\ DOMAIN cycle.snapshot.TokenData /= {}) =>
        /\ \A k \in 1..Len(timeWindows) :
              ~IsNil(Found(timeWindows[k])) =>
                  \E n \in 1..(ringLen - 1) : WindowMatch(n * interval, timeWindows[k])
        /\ IsNil(Found(30))
        /\ \A i \in 1..Len(alertLog) : alertLog[i].alert.window /= 30
        /\ \A w \in {60, 300} :
              HistoryDeep(w) =>
                  /\ ~IsNil(Found(w))
                  /\ cycle.snapshot.Timestamp - Found(w).Timestamp = w

\* the 16th tick: the history is 300s deep, a snapshot between 30s and 40s old is
\* stored, and the tick has alerted for the 1m and for the 5m window
C38_Witness ==
    /\ pcLoop = "select"
    /\ Cardinality(DOMAIN ring) = 16
    /\ HistoryDeep(300)
    /\ \E e \in DOMAIN ring : cycle.snapshot.Timestamp - ring[e].Timestamp = 40
    /\ \E i \in 1..Len(cycle.alerts) : cycle.alerts[i].window = 60
    /\ \E i \in 1..Len(cycle.alerts) : cycle.alerts[i].window = 300

\* SpecWorkers: one call of FetchMultipleWalletsTokens in which a wallet fetch may
\* return holdings, return an error or panic, and the caller may cancel at any
\* moment; every goroutine that can take a step is scheduled, and every call of
\* FetchWalletTokens ends (it returns by its 30s deadline at the latest, or panics)
WorkerEnds(w) == (\E o \in PlainOutcomes : WorkerFetched(w, o)) \/ WorkerPanics(w)

NextWorkers ==
    \/ \E n \in 1..MaxWallets : MultiStart(WalletList(n))
    \/ MultiAdmit
    \/ MultiAdmitCancelled
    \/ \E w \in 1..MaxWallets : WorkerWakes(w)
    \/ \E w \in 1..MaxWallets : \E o \in PlainOutcomes : WorkerFetched(w, o)
    \/ \E w \in 1..MaxWallets : WorkerPanics(w)
    \/ \E w \in 1..MaxWallets : WorkerPanicRelease(w)
    \/ \E w \in 1..MaxWallets : WorkerPanicSend(w)
    \/ \E w \in 1..MaxWallets : WorkerExit(w)
    \/ MultiCollect
    \/ MultiCollectCancelled
    \/ CancelParent

SpecWorkers ==
    /\ Init
    /\ [][NextWorkers]_vars
    /\ WF_vars(\E n \in 1..MaxWallets : MultiStart(WalletList(n)))
    /\ WF_vars(MultiAdmit \/ MultiAdmitCancelled)
    /\ WF_vars(MultiCollect \/ MultiCollectCancelled)
    /\ \A w \in 1..MaxWallets :
         /\ WF_vars(WorkerWakes(w))
         /\ WF_vars(WorkerEnds(w))
         /\ WF_vars(WorkerPanicRelease(w))
         /\ WF_vars(WorkerPanicSend(w))
         /\ WF_vars(WorkerExit(w))

\* the workers that have sent their result
Delivered == {w \in 1..Len(mwWorker) : mwWorker[w] \in {"release", "done"}}
\* the workers that hold a permit of sem
HoldingPermit ==
    {w \in 1..Len(mwWorker) : mwWorker[w] \in {"sleep", "fetch", "release", "panicked"}}
\* the workers that have still to send their result
ToSend == {w \in 1..Len(mwWorker) : mwWorker[w] \in {"sleep", "fetch", "panicked", "recovered"}}

\* C39: the results sent are one per worker that has got as far as sending (none
\* twice), a worker that has still to send finds room in resultChan, the permits
\* in sem are those of the workers that have not yet released theirs, the call
\* returns only after one result per wallet or on cancellation; and every call
\* returns, every started worker ends having sent its result, and sem is empty.
C39_WorkersDeliverAndRelease ==
    /\ [](/\ Len(mwChan) + mwI = Cardinality(Delivered)
          /\ \A i, j \in 1..Len(mwChan) : i /= j => mwChan[i].address /= mwChan[j].address
          /\ ToSend /= {} => CanSend
          /\ mwSem = Cardinality(HoldingPermit)
          /\ pcMulti = "returned" => (mwI = Len(mwAddrs) \/ mwOut.err = "ctx"))
    /\ <>[](/\ pcMulti = "returned"
            /\ mwSem = 0
            /\ \A w \in 1..Len(mwWorker) : mwWorker[w] \in {"none", "done"}
            /\ Len(mwChan) + mwI = mwNext)

\* three wallets: the fetch of one has panicked, that of another has failed and
\* that of the third has returned holdings; the call has returned after receiving
\* the three results, every worker has ended and sem is empty
C39_Witness ==
    /\ pcMulti = "returned"
    /\ Len(mwAddrs) = 3
    /\ mwI = 3
    /\ mwSem = 0
    /\ \E w \in 1..3 : mwSrc[w].err = "panic"
    /\ \E w \in 1..3 : mwSrc[w].err = "nil"
    /\ \E w \in 1..3 : mwSrc[w].err = "timeout"
    /\ \A w \in 1..3 : mwWorker[w] = "done"

\* C40: the change rate of every holding of a valuation is a quotient with a
\* non-zero divisor, that is a finite number: neither the seconds elapsed nor the
\* previous value it is divided by is 0.
C40_RateDivisorNonZero ==
    upOut.done => \A m \in DOMAIN upOut.change : upOut.change[m].den /= 0

====
